---- MODULE Spec2Model ----
(***************************************************************************)
(* Counterfeit detection engine of the product-authentication backend      *)
(* (app/services/counterfeit_detection_service.py).                        *)
(*                                                                         *)
(* detect_counterfeit is a function of the product row, the claimed        *)
(* fingerprint, the rows of the products, users and verifications tables   *)
(* that its queries read, the content store and the clock.  Init draws     *)
(* these from bounded sets; the one action applies detect_counterfeit to   *)
(* one stored product and records the verdict.                             *)
(*                                                                         *)
(* Python values: strings are TLA+ strings, an Optional value is <<>>      *)
(* (None) or <<v>>, a float score is kept in hundredths, a datetime is a   *)
(* day number.                                                              *)
(***************************************************************************)
EXTENDS Integers, Sequences, FiniteSets, TLC

VARIABLES products, users, verifications, ipfs, now, request, verdict

vars == <<products, users, verifications, ipfs, now, request, verdict>>

(***************************************************************************)
(* Bounds of the model.                                                    *)
(***************************************************************************)
MaxProducts == 2

MaxHistory == 25

(***************************************************************************)
(* Optional values.                                                        *)
(***************************************************************************)
None == <<>>

Some(v) == <<v>>

NoRow == [absent |-> TRUE]

(***************************************************************************)
(* Python string operations used by the engine.                            *)
(***************************************************************************)
Contains(s, w) ==
    \E i \in 1..(Len(s) - Len(w) + 1) : SubSeq(s, i, i + Len(w) - 1) = w

UpperChars == "ABCDEFGHIJKLMNOPQRSTUVWXYZ"

LowerChars == "abcdefghijklmnopqrstuvwxyz"

LowerOf ==
    [c \in {SubSeq(UpperChars, i, i) : i \in 1..Len(UpperChars)} |->
        LET i == CHOOSE j \in 1..Len(UpperChars) : SubSeq(UpperChars, j, j) = c
        IN  SubSeq(LowerChars, i, i)]

LowerChar(c) == IF c \in DOMAIN LowerOf THEN LowerOf[c] ELSE c

RECURSIVE StrLower(_)
StrLower(s) ==
    IF Len(s) = 0 THEN ""
    ELSE LowerChar(SubSeq(s, 1, 1)) \o StrLower(SubSeq(s, 2, Len(s)))

RECURSIVE Repeat(_, _)
Repeat(c, n) == IF n = 0 THEN "" ELSE c \o Repeat(c, n - 1)

HexChars == "0123456789abcdefABCDEF"

IsHex(s) == \A i \in 1..Len(s) : Contains(HexChars, SubSeq(s, i, i))

\* f"{rate:.1%}" for rate = cf / total: one decimal, ties to even
\* on the exactly representable quotients
FormatPercent(cf, total) ==
    LET q == (cf * 1000) \div total
        r == (cf * 1000) % total
        up == \/ 2 * r > total
              \/ (2 * r = total /\ q % 2 = 1)
        permille == IF up THEN q + 1 ELSE q
    IN  ToString(permille \div 10) \o "." \o ToString(permille % 10) \o "%"

(***************************************************************************)
(* Fingerprints (qr_code_hash values) of the model.                        *)
(***************************************************************************)
HashLen == 64

FP_A == Repeat("a", HashLen)

FP_B == Repeat("a", HashLen - 1) \o "b"

FP_G == Repeat("a", HashLen - 1) \o "g"

FP_SHORT == Repeat("a", HashLen - 1)

StoredHashes == {"", FP_SHORT, FP_A, FP_G}

OtherHashes == {FP_A, FP_B, ""}

ProvidedHashes == {None, Some(""), Some(FP_A), Some(FP_B)}

WellFormed(h) == Len(h) = HashLen /\ IsHex(h)

ProductIds == 1..MaxProducts

UserIds == {1, 2}

IpfsHashes == {"Qm1"}

Rows(table) == {i \in DOMAIN table : table[i] # NoRow}

(***************************************************************************)
(* Clock and thresholds of the engine.                                     *)
(***************************************************************************)
PatternWindowDays == 30

ExcessiveAttempts == 20

HighFrequency == 10

VeryOldDays == 3650

(***************************************************************************)
(* 1. _validate_qr_code                                                    *)
(***************************************************************************)
\* variant: a claimed fingerprint is never taken as supplied
TruthyNever(opt) == FALSE

Truthy(opt) == opt # None /\ opt[1] # ""

\* variant: the duplicate query also filters on the manufacturer
QrDuplicateCountSameManufacturer(p) ==
    Cardinality({i \in Rows(products) :
                    /\ products[i].qr_code_hash = p.qr_code_hash
                    /\ products[i].manufacturer_id = p.manufacturer_id
                    /\ i # p.id})

QrDuplicateCount(p) ==
    Cardinality({i \in Rows(products) :
                    /\ products[i].qr_code_hash = p.qr_code_hash
                    /\ i # p.id})

QrFormatValid(p) ==
    ~(p.qr_code_hash = "" \/ Len(p.qr_code_hash) # HashLen)

ValidateQrCode(p, provided_qr_hash) ==
    IF ~QrFormatValid(p)
    THEN [is_valid |-> FALSE,
          reasons |-> <<"Invalid QR code hash format - possible counterfeit">>]
    ELSE LET mismatch == /\ Truthy(provided_qr_hash)
                         /\ p.qr_code_hash # provided_qr_hash[1]
             duplicate_count == QrDuplicateCount(p)
             r1 == <<"QR code hash format is valid">>
             r2 == IF ~Truthy(provided_qr_hash) THEN <<>>
                   ELSE IF mismatch
                        THEN <<"QR code hash mismatch - possible counterfeit">>
                        ELSE <<"QR code hash matches stored value">>
             r3 == IF duplicate_count > 0
                   THEN <<"Duplicate QR code detected on "
                          \o ToString(duplicate_count)
                          \o " other products - counterfeit">>
                   ELSE <<"QR code is unique - no duplicates found">>
         IN  [is_valid |-> ~mismatch /\ duplicate_count = 0,
              reasons |-> r1 \o r2 \o r3]

(***************************************************************************)
(* 2. _validate_ipfs_data.  ipfs[h] is what retrieve_product_data(h)       *)
(* returns: a failure with its error text, a product_data that is not a    *)
(* mapping (the .get on it raises), or the stored snapshot.                *)
(***************************************************************************)
IpfsFailure(error) == [kind |-> "failure", error |-> error]

IpfsNotAMapping == [kind |-> "not_a_mapping"]

IpfsSnapshot(name, batch) ==
    [kind |-> "snapshot", product_name |-> name, batch_number |-> batch]

AttributeErrorText == "'str' object has no attribute 'get'"

\* variant: a failed retrieval is treated like a missing hash
ValidateIpfsDataFailOpen(p) ==
    IF ~Truthy(p.ipfs_hash) \/ ipfs[p.ipfs_hash[1]].kind # "snapshot"
    THEN [is_valid |-> TRUE,
          reasons |-> <<"No IPFS data available - limited verification">>]
    ELSE LET ipfs_result == ipfs[p.ipfs_hash[1]]
         IN  IF ipfs_result.product_name # Some(p.product_name)
             THEN [is_valid |-> FALSE,
                   reasons |-> <<"IPFS data product name mismatch">>]
             ELSE IF ipfs_result.batch_number # Some(p.batch_number)
             THEN [is_valid |-> FALSE,
                   reasons |-> <<"IPFS data batch number mismatch">>]
             ELSE [is_valid |-> TRUE,
                   reasons |-> <<"IPFS data integrity verified">>]

\* variant: only the product name is compared with the snapshot
ValidateIpfsDataNameOnly(p) ==
    IF ~Truthy(p.ipfs_hash)
    THEN [is_valid |-> TRUE,
          reasons |-> <<"No IPFS data available - limited verification">>]
    ELSE LET ipfs_result == ipfs[p.ipfs_hash[1]]
         IN  CASE ipfs_result.kind = "failure" ->
                    [is_valid |-> FALSE,
                     reasons |-> <<"IPFS data retrieval failed: "
                                   \o ipfs_result.error>>]
               [] ipfs_result.kind = "not_a_mapping" ->
                    [is_valid |-> FALSE,
                     reasons |-> <<"IPFS validation error: "
                                   \o AttributeErrorText>>]
               [] OTHER ->
                    IF ipfs_result.product_name # Some(p.product_name)
                    THEN [is_valid |-> FALSE,
                          reasons |-> <<"IPFS data product name mismatch">>]
                    ELSE [is_valid |-> TRUE,
                          reasons |-> <<"IPFS data integrity verified">>]

ValidateIpfsData(p) ==
    IF ~Truthy(p.ipfs_hash)
    THEN [is_valid |-> TRUE,
          reasons |-> <<"No IPFS data available - limited verification">>]
    ELSE LET ipfs_result == ipfs[p.ipfs_hash[1]]
         IN  CASE ipfs_result.kind = "failure" ->
                    [is_valid |-> FALSE,
                     reasons |-> <<"IPFS data retrieval failed: "
                                   \o ipfs_result.error>>]
               [] ipfs_result.kind = "not_a_mapping" ->
                    [is_valid |-> FALSE,
                     reasons |-> <<"IPFS validation error: "
                                   \o AttributeErrorText>>]
               [] OTHER ->
                    IF ipfs_result.product_name # Some(p.product_name)
                    THEN [is_valid |-> FALSE,
                          reasons |-> <<"IPFS data product name mismatch">>]
                    ELSE IF ipfs_result.batch_number # Some(p.batch_number)
                    THEN [is_valid |-> FALSE,
                          reasons |-> <<"IPFS data batch number mismatch">>]
                    ELSE [is_valid |-> TRUE,
                          reasons |-> <<"IPFS data integrity verified">>]

(***************************************************************************)
(* 3. _validate_blockchain_data                                            *)
(***************************************************************************)
ValidateBlockchainData(p) ==
    IF p.blockchain_id = None \/ p.blockchain_id = Some(0)
    THEN [is_valid |-> FALSE,
          reasons |-> <<"Product not registered on blockchain">>]
    ELSE [is_valid |-> TRUE,
          reasons |-> <<"Product registered on blockchain">>]

(***************************************************************************)
(* 4. _check_duplicates                                                    *)
(***************************************************************************)
\* variant: the batch query leaves out the is_active filter
DuplicateProductsAnyState(p) ==
    {i \in Rows(products) :
        /\ products[i].batch_number = p.batch_number
        /\ products[i].manufacturer_id = p.manufacturer_id
        /\ i # p.id}

\* variant: the batch query does not exclude the verified product itself
DuplicateProductsOwnRow(p) ==
    {i \in Rows(products) :
        /\ products[i].batch_number = p.batch_number
        /\ products[i].manufacturer_id = p.manufacturer_id
        /\ products[i].is_active = TRUE}

DuplicateProducts(p) ==
    {i \in Rows(products) :
        /\ products[i].batch_number = p.batch_number
        /\ products[i].manufacturer_id = p.manufacturer_id
        /\ i # p.id
        /\ products[i].is_active = TRUE}

CheckDuplicates(p) ==
    LET duplicate_products == DuplicateProducts(p)
    IN  IF duplicate_products # {}
        THEN [has_duplicates |-> TRUE,
              reasons |-> <<"Found " \o ToString(Cardinality(duplicate_products))
                            \o " products with same batch number from same manufacturer">>]
        ELSE [has_duplicates |-> FALSE,
              reasons |-> <<"No duplicate products found with same batch number">>]

(***************************************************************************)
(* 5. _analyze_verification_patterns                                       *)
(***************************************************************************)
\* variant: a record exactly 30 days old is outside the window
RecentVerificationsStrict(p) ==
    {i \in DOMAIN verifications :
        /\ verifications[i].product_id = p.id
        /\ verifications[i].verification_date > now - PatternWindowDays}

RecentVerifications(p) ==
    {i \in DOMAIN verifications :
        /\ verifications[i].product_id = p.id
        /\ verifications[i].verification_date >= now - PatternWindowDays}

\* variant: the counterfeit rate is not reported
AnalyzeVerificationPatternsCountOnly(p) ==
    LET recent == RecentVerifications(p)
        total == Cardinality(recent)
        counterfeit == Cardinality({i \in recent : ~verifications[i].is_authentic})
        suffix == ToString(total) \o " in 30 days"
        r1 == IF total > ExcessiveAttempts
              THEN <<"Excessive verification attempts: " \o suffix>>
              ELSE IF total > HighFrequency
              THEN <<"High verification frequency: " \o suffix>>
              ELSE <<"Normal verification pattern: " \o suffix>>
        high_rate == total > 0 /\ 2 * counterfeit > total
    IN  [suspicious_pattern |-> total > ExcessiveAttempts \/ high_rate,
         reasons |-> r1]

AnalyzeVerificationPatterns(p) ==
    LET recent == RecentVerifications(p)
        total == Cardinality(recent)
        counterfeit == Cardinality({i \in recent : ~verifications[i].is_authentic})
        suffix == ToString(total) \o " in 30 days"
        r1 == IF total > ExcessiveAttempts
              THEN <<"Excessive verification attempts: " \o suffix>>
              ELSE IF total > HighFrequency
              THEN <<"High verification frequency: " \o suffix>>
              ELSE <<"Normal verification pattern: " \o suffix>>
        \* counterfeit / total > 0.5 and > 0.2 on the float quotient
        high_rate == total > 0 /\ 2 * counterfeit > total
        moderate_rate == total > 0 /\ 5 * counterfeit > total
        r2 == IF total = 0 THEN <<>>
              ELSE IF high_rate
              THEN <<"High counterfeit detection rate: "
                     \o FormatPercent(counterfeit, total)>>
              ELSE IF moderate_rate
              THEN <<"Moderate counterfeit detection rate: "
                     \o FormatPercent(counterfeit, total)>>
              ELSE <<"Low counterfeit detection rate: "
                     \o FormatPercent(counterfeit, total)>>
    IN  [suspicious_pattern |-> total > ExcessiveAttempts \/ high_rate,
         reasons |-> r1 \o r2]

(***************************************************************************)
(* 6. _validate_manufacturer                                               *)
(***************************************************************************)
\* variant: an unverified manufacturer fails the check
ValidateManufacturerStrict(p) ==
    LET manufacturer == IF p.manufacturer_id \in DOMAIN users
                        THEN users[p.manufacturer_id] ELSE NoRow
    IN  IF manufacturer = NoRow
        THEN [is_valid |-> FALSE,
              reasons |-> <<"Manufacturer not found in database">>]
        ELSE IF ~manufacturer.is_active
        THEN [is_valid |-> FALSE,
              reasons |-> <<"Manufacturer account is inactive">>]
        ELSE IF ~manufacturer.is_verified
        THEN [is_valid |-> FALSE,
              reasons |-> <<"Manufacturer account is not verified">>]
        ELSE [is_valid |-> TRUE,
              reasons |-> <<"Manufacturer account is valid and verified">>]

ValidateManufacturer(p) ==
    LET manufacturer == IF p.manufacturer_id \in DOMAIN users
                        THEN users[p.manufacturer_id] ELSE NoRow
    IN  IF manufacturer = NoRow
        THEN [is_valid |-> FALSE,
              reasons |-> <<"Manufacturer not found in database">>]
        ELSE IF ~manufacturer.is_active
        THEN [is_valid |-> FALSE,
              reasons |-> <<"Manufacturer account is inactive">>]
        ELSE IF ~manufacturer.is_verified
        THEN [is_valid |-> TRUE,
              reasons |-> <<"Manufacturer account is not verified">>]
        ELSE [is_valid |-> TRUE,
              reasons |-> <<"Manufacturer account is valid and verified">>]

(***************************************************************************)
(* 7. _check_data_consistency                                              *)
(***************************************************************************)
CheckDataConsistency(p) ==
    LET missing == p.product_name = "" \/ p.batch_number = ""
        r1 == IF missing
              THEN <<"Missing required product information">>
              ELSE <<"Product information is complete">>
        dated == p.manufacturing_date # None
        future == dated /\ p.manufacturing_date[1] > now
        old == dated /\ ~future /\ p.manufacturing_date[1] < now - VeryOldDays
        r2 == IF ~dated THEN <<>>
              ELSE IF future THEN <<"Manufacturing date is in the future">>
              ELSE IF old THEN <<"Product is very old - verify authenticity">>
              ELSE <<"Manufacturing date is reasonable">>
    IN  [is_consistent |-> ~missing /\ ~future,
         reasons |-> r1 \o r2]

(***************************************************************************)
(* _calculate_confidence_score and _calculate_risk_level.  Scores are in   *)
(* hundredths: every penalty is a multiple of 0.05, so round(score, 2) is  *)
(* the exact hundredth.                                                    *)
(***************************************************************************)
BaseScore == 90

DefaultPenalty == 10

WarningPenalty == 5

Penalties ==
    [qr_invalid |-> 40, swarm_invalid |-> 30, blockchain_invalid |-> 20,
     duplicate_detected |-> 50, suspicious_pattern |-> 30,
     manufacturer_invalid |-> 20, data_inconsistent |-> 20,
     detection_error |-> 50]

Penalty(factor) ==
    IF factor \in DOMAIN Penalties THEN Penalties[factor] ELSE DefaultPenalty

\* variant: 'limited' is not a warning word
WarningWordsWithoutLimited == {"warning", "old", "high"}

WarningWords == {"warning", "limited", "old", "high"}

HasWarningWord(r) == \E word \in WarningWords : Contains(StrLower(r), word)

RECURSIVE SumPenalties(_)
SumPenalties(risk_factors) ==
    IF risk_factors = <<>> THEN 0
    ELSE Penalty(Head(risk_factors)) + SumPenalties(Tail(risk_factors))

\* The reason texts the validators emit, and those among them that the
\* warning test selects; IsWarning(r) is HasWarningWord(r), looked up for
\* these texts and computed for any other.
Counts == 0..(MaxHistory + MaxProducts + 2)

RateTexts ==
    UNION {{FormatPercent(c, t) : c \in 0..t} : t \in Counts \ {0}}

ReasonTexts ==
    {"Invalid QR code hash format - possible counterfeit",
     "QR code hash format is valid",
     "QR code hash mismatch - possible counterfeit",
     "QR code hash matches stored value",
     "QR code is unique - no duplicates found",
     "No IPFS data available - limited verification",
     "IPFS data product name mismatch",
     "IPFS data batch number mismatch",
     "IPFS data integrity verified",
     "Product not registered on blockchain",
     "Product registered on blockchain",
     "No duplicate products found with same batch number",
     "Manufacturer not found in database",
     "Manufacturer account is inactive",
     "Manufacturer account is not verified",
     "Manufacturer account is valid and verified",
     "Missing required product information",
     "Product information is complete",
     "Manufacturing date is in the future",
     "Product is very old - verify authenticity",
     "Manufacturing date is reasonable"}
    \cup {"Duplicate QR code detected on " \o ToString(n)
             \o " other products - counterfeit" : n \in Counts}
    \cup {"Found " \o ToString(n)
             \o " products with same batch number from same manufacturer" :
             n \in Counts}
    \cup {"Excessive verification attempts: " \o ToString(n) \o " in 30 days" :
             n \in Counts}
    \cup {"High verification frequency: " \o ToString(n) \o " in 30 days" :
             n \in Counts}
    \cup {"Normal verification pattern: " \o ToString(n) \o " in 30 days" :
             n \in Counts}
    \cup {"High counterfeit detection rate: " \o r : r \in RateTexts}
    \cup {"Moderate counterfeit detection rate: " \o r : r \in RateTexts}
    \cup {"Low counterfeit detection rate: " \o r : r \in RateTexts}

WarningReasons == {r \in ReasonTexts : HasWarningWord(r)}

IsWarning(r) ==
    IF r \in ReasonTexts THEN r \in WarningReasons ELSE HasWarningWord(r)

WarningCount(detection_reasons) ==
    Cardinality({i \in DOMAIN detection_reasons :
                    IsWarning(detection_reasons[i])})

Max(a, b) == IF a >= b THEN a ELSE b

\* variant: no early return for a negative verdict
CalculateConfidenceScoreNoFloor(is_authentic, risk_factors, detection_reasons) ==
    Max(0, BaseScore - SumPenalties(risk_factors)
           - WarningCount(detection_reasons) * WarningPenalty)

\* variant: the result is not clamped at 0
CalculateConfidenceScoreNoClamp(is_authentic, risk_factors, detection_reasons) ==
    IF ~is_authentic THEN 0
    ELSE BaseScore - SumPenalties(risk_factors)
         - WarningCount(detection_reasons) * WarningPenalty

CalculateConfidenceScore(is_authentic, risk_factors, detection_reasons) ==
    IF ~is_authentic THEN 0
    ELSE Max(0, BaseScore - SumPenalties(risk_factors)
                - WarningCount(detection_reasons) * WarningPenalty)

HighRiskBelow == 30

MediumRiskBelow == 70

\* variant: the boundaries are compared with <=
CalculateRiskLevelInclusive(confidence_score) ==
    IF confidence_score <= HighRiskBelow THEN "high"
    ELSE IF confidence_score <= MediumRiskBelow THEN "medium"
    ELSE "low"

CalculateRiskLevel(confidence_score) ==
    IF confidence_score < HighRiskBelow THEN "high"
    ELSE IF confidence_score < MediumRiskBelow THEN "medium"
    ELSE "low"

(***************************************************************************)
(* detect_counterfeit.  db_error_at = k > 0: the database query of step k  *)
(* raises (step 1 issues its query only for a hash of valid length).       *)
(***************************************************************************)
DbErrorText == "connection to server lost"

Raises(p, db_error_at) ==
    \/ db_error_at \in {4, 5, 6}
    \/ db_error_at = 1 /\ QrFormatValid(p)

\* variant: the handler keeps the initial is_authentic = True
ErrorVerdictFailOpen(message) ==
    [is_authentic |-> TRUE,
     detection_reasons |-> <<"Detection error: " \o message>>,
     confidence_score |-> 0,
     risk_level |-> "high",
     risk_factors |-> <<"detection_error">>,
     validation_summary |-> <<>>]

ErrorVerdict(message) ==
    [is_authentic |-> FALSE,
     detection_reasons |-> <<"Detection error: " \o message>>,
     confidence_score |-> 0,
     risk_level |-> "high",
     risk_factors |-> <<"detection_error">>,
     validation_summary |-> <<>>]

If(cond, factor) == IF cond THEN <<factor>> ELSE <<>>

\* variant: the content-store result is recorded as a risk factor only
IsAuthenticWithoutIpfs(qr_validation, ipfs_validation, duplicate_check) ==
    /\ qr_validation.is_valid
    /\ ~duplicate_check.has_duplicates

IsAuthentic(qr_validation, ipfs_validation, duplicate_check) ==
    /\ qr_validation.is_valid
    /\ ipfs_validation.is_valid
    /\ ~duplicate_check.has_duplicates

\* variant: the content-store reasons are collected before the QR reasons
DetectCounterfeitIpfsFirst(p, provided_qr_hash, db_error_at) ==
    IF Raises(p, db_error_at) THEN ErrorVerdict(DbErrorText)
    ELSE
    LET qr_validation == ValidateQrCode(p, provided_qr_hash)
        ipfs_validation == ValidateIpfsData(p)
        blockchain_validation == ValidateBlockchainData(p)
        duplicate_check == CheckDuplicates(p)
        pattern_analysis == AnalyzeVerificationPatterns(p)
        manufacturer_validation == ValidateManufacturer(p)
        consistency_check == CheckDataConsistency(p)
        detection_reasons ==
            ipfs_validation.reasons \o qr_validation.reasons
            \o blockchain_validation.reasons \o duplicate_check.reasons
            \o pattern_analysis.reasons \o manufacturer_validation.reasons
            \o consistency_check.reasons
        risk_factors ==
            If(~qr_validation.is_valid, "qr_invalid")
            \o If(~ipfs_validation.is_valid, "ipfs_invalid")
            \o If(~blockchain_validation.is_valid, "blockchain_invalid")
            \o If(duplicate_check.has_duplicates, "duplicate_detected")
            \o If(pattern_analysis.suspicious_pattern, "suspicious_pattern")
            \o If(~manufacturer_validation.is_valid, "manufacturer_invalid")
            \o If(~consistency_check.is_consistent, "data_inconsistent")
        is_authentic ==
            IsAuthentic(qr_validation, ipfs_validation, duplicate_check)
        confidence_score ==
            CalculateConfidenceScore(is_authentic, risk_factors, detection_reasons)
    IN  [is_authentic |-> is_authentic,
         detection_reasons |-> detection_reasons,
         confidence_score |-> confidence_score,
         risk_level |-> CalculateRiskLevel(confidence_score),
         risk_factors |-> risk_factors,
         validation_summary |->
             [qr_valid |-> qr_validation.is_valid,
              blockchain_valid |-> blockchain_validation.is_valid,
              no_duplicates |-> ~duplicate_check.has_duplicates,
              normal_pattern |-> ~pattern_analysis.suspicious_pattern,
              manufacturer_valid |-> manufacturer_validation.is_valid,
              data_consistent |-> consistency_check.is_consistent]]

DetectCounterfeit(p, provided_qr_hash, db_error_at) ==
    IF Raises(p, db_error_at) THEN ErrorVerdict(DbErrorText)
    ELSE
    LET qr_validation == ValidateQrCode(p, provided_qr_hash)
        ipfs_validation == ValidateIpfsData(p)
        blockchain_validation == ValidateBlockchainData(p)
        duplicate_check == CheckDuplicates(p)
        pattern_analysis == AnalyzeVerificationPatterns(p)
        manufacturer_validation == ValidateManufacturer(p)
        consistency_check == CheckDataConsistency(p)
        detection_reasons ==
            qr_validation.reasons \o ipfs_validation.reasons
            \o blockchain_validation.reasons \o duplicate_check.reasons
            \o pattern_analysis.reasons \o manufacturer_validation.reasons
            \o consistency_check.reasons
        risk_factors ==
            If(~qr_validation.is_valid, "qr_invalid")
            \o If(~ipfs_validation.is_valid, "ipfs_invalid")
            \o If(~blockchain_validation.is_valid, "blockchain_invalid")
            \o If(duplicate_check.has_duplicates, "duplicate_detected")
            \o If(pattern_analysis.suspicious_pattern, "suspicious_pattern")
            \o If(~manufacturer_validation.is_valid, "manufacturer_invalid")
            \o If(~consistency_check.is_consistent, "data_inconsistent")
        is_authentic ==
            IsAuthentic(qr_validation, ipfs_validation, duplicate_check)
        confidence_score ==
            CalculateConfidenceScore(is_authentic, risk_factors, detection_reasons)
    IN  [is_authentic |-> is_authentic,
         detection_reasons |-> detection_reasons,
         confidence_score |-> confidence_score,
         risk_level |-> CalculateRiskLevel(confidence_score),
         risk_factors |-> risk_factors,
         validation_summary |->
             [qr_valid |-> qr_validation.is_valid,
              blockchain_valid |-> blockchain_validation.is_valid,
              no_duplicates |-> ~duplicate_check.has_duplicates,
              normal_pattern |-> ~pattern_analysis.suspicious_pattern,
              manufacturer_valid |-> manufacturer_validation.is_valid,
              data_consistent |-> consistency_check.is_consistent]]

(***************************************************************************)
(* Inputs.  Each input of the engine has a full domain and a short one     *)
(* (one value per outcome of the validators that read it).  Init picks one *)
(* input as the focus and draws it from its full domain while the others   *)
(* range over their short domains, so every combination of validator       *)
(* outcomes occurs together with every value of each single input.         *)
(***************************************************************************)
Inputs ==
    {"hash", "fields", "active", "others", "ipfs", "ledger", "issuer",
     "date", "history", "target", "claimed", "dberror"}

Today == 4000

\* <<product_name, batch_number>> of the verified product
FieldPairs == {<<"Widget", "B1">>, <<"", "B1">>, <<"Widget", "">>}

OtherRow(h, batch, manufacturer, active) ==
    [qr_code_hash |-> h, product_name |-> "Other", batch_number |-> batch,
     manufacturer_id |-> manufacturer, is_active |-> active,
     blockchain_id |-> None, ipfs_hash |-> None,
     manufacturing_date |-> Some(Today - 1)]

OtherRowsFull ==
    {NoRow} \cup
    {OtherRow(h, bm[1], bm[2], bm[3]) :
        h \in OtherHashes,
        bm \in {<<"B1", 1, TRUE>>, <<"B1", 1, FALSE>>,
                <<"B1", 2, TRUE>>, <<"B2", 1, TRUE>>}}

OtherRowsShort ==
    {NoRow, OtherRow(FP_A, "B2", 1, TRUE), OtherRow(FP_B, "B1", 1, TRUE)}

\* <<ipfs_hash of the product, what the content store returns for it>>
IpfsFull ==
    {<<None, IpfsFailure("Data not found")>>,
     <<Some(""), IpfsFailure("Data not found")>>}
    \cup {<<Some("Qm1"), c>> :
            c \in {IpfsFailure("Data not found"),
                   IpfsFailure("Invalid data format"),
                   IpfsNotAMapping,
                   IpfsSnapshot(None, Some("B1")),
                   IpfsSnapshot(Some("Widget"), None)}
               \cup {IpfsSnapshot(Some(n), Some(b)) :
                        n \in {"Widget", "Gadget", ""}, b \in {"B1", "B2", ""}}}

IpfsShort ==
    {<<None, IpfsFailure("Data not found")>>,
     <<Some("Qm1"), IpfsFailure("Data not found")>>,
     <<Some("Qm1"), IpfsSnapshot(Some("Widget"), Some("B1"))>>}

UserRow(active, verified) == [is_active |-> active, is_verified |-> verified]

IssuerFull == {NoRow} \cup {UserRow(a, v) : a \in BOOLEAN, v \in BOOLEAN}

IssuerShort == {UserRow(TRUE, TRUE), UserRow(FALSE, TRUE)}

DateFull ==
    {Some(Today + 1), Some(Today), Some(Today - 1), Some(Today - VeryOldDays),
     Some(Today - VeryOldDays - 1), None}

DateShort == {Some(Today - 1), Some(Today + 1)}

\* <<authentic records, counterfeit records, unrelated records>> of the
\* verified product's history
HistoryShapes ==
    {<<0, 0>>, <<1, 0>>, <<0, 1>>, <<1, 1>>, <<1, 2>>, <<4, 1>>, <<3, 2>>,
     <<15, 1>>, <<HighFrequency, 0>>, <<HighFrequency + 1, 0>>,
     <<HighFrequency, 1>>, <<16, 4>>, <<ExcessiveAttempts, 0>>,
     <<ExcessiveAttempts + 1, 0>>, <<10, 10>>, <<10, 11>>,
     <<10, 15>>, <<MaxHistory - 15, 15>>, <<MaxHistory, 0>>, <<0, MaxHistory>>}

HistoryFull == {<<s[1], s[2], z>> : s \in HistoryShapes, z \in {0, 1}}

HistoryShort == {<<0, 0, 0>>, <<ExcessiveAttempts + 1, 0, 1>>}

VerificationRow(product_id, is_authentic, date) ==
    [product_id |-> product_id, is_authentic |-> is_authentic,
     verification_date |-> date]

\* a authentic and c counterfeit records of product 1 inside the window
\* (the first one on its first day); with z = 1 also one record of product 1
\* one day before the window and one record of product 2
History(a, c, z) ==
    [i \in 1..a |->
        VerificationRow(1, TRUE,
            IF i = 1 THEN Today - PatternWindowDays ELSE Today)]
    \o [i \in 1..c |-> VerificationRow(1, FALSE, Today)]
    \o (IF z = 1
        THEN <<VerificationRow(1, FALSE, Today - PatternWindowDays - 1),
               VerificationRow(2, FALSE, Today)>>
        ELSE <<>>)

Full ==
    [hash |-> StoredHashes, fields |-> FieldPairs, active |-> BOOLEAN,
     others |-> OtherRowsFull, ipfs |-> IpfsFull,
     ledger |-> {None, Some(0), Some(1)}, issuer |-> IssuerFull,
     date |-> DateFull, history |-> HistoryFull, target |-> ProductIds,
     claimed |-> ProvidedHashes, dberror |-> {0, 1, 4, 5, 6}]

Short ==
    [hash |-> {FP_A, ""}, fields |-> {<<"Widget", "B1">>},
     active |-> {TRUE}, others |-> OtherRowsShort, ipfs |-> IpfsShort,
     ledger |-> {None, Some(1)}, issuer |-> IssuerShort,
     date |-> DateShort, history |-> HistoryShort, target |-> {1},
     claimed |-> {None, Some(FP_A)}, dberror |-> {0}]

Domain(input, focus) == IF input = focus THEN Full[input] ELSE Short[input]

NoVerdict == [pending |-> TRUE]

Init ==
    \E focus \in Inputs :
    \E h \in Domain("hash", focus), f \in Domain("fields", focus),
       a \in Domain("active", focus), st \in Domain("ipfs", focus),
       l \in Domain("ledger", focus), u \in Domain("issuer", focus),
       d \in Domain("date", focus), hs \in Domain("history", focus),
       t \in Domain("target", focus), c \in Domain("claimed", focus),
       e \in Domain("dberror", focus),
       others \in [2..MaxProducts -> Domain("others", focus)] :
        /\ products =
              [i \in ProductIds |->
                  IF i = 1
                  THEN [qr_code_hash |-> h, product_name |-> f[1],
                        batch_number |-> f[2], manufacturer_id |-> 1,
                        is_active |-> a, blockchain_id |-> l,
                        ipfs_hash |-> st[1], manufacturing_date |-> d]
                  ELSE others[i]]
        /\ t \in Rows(products)
        /\ users = [i \in UserIds |-> IF i = 1 THEN u ELSE UserRow(TRUE, TRUE)]
        /\ verifications = History(hs[1], hs[2], hs[3])
        /\ ipfs = [x \in IpfsHashes \cup {""} |-> st[2]]
        /\ now = Today
        /\ request = [product_id |-> t, provided_qr_hash |-> c, db_error_at |-> e]
        /\ verdict = NoVerdict

(***************************************************************************)
(* The verification request is served: detect_counterfeit runs on the      *)
(* requested product row and its result is returned.                       *)
(***************************************************************************)
Product(id) == [id |-> id] @@ products[id]

Detect ==
    /\ verdict = NoVerdict
    /\ verdict' = DetectCounterfeit(Product(request.product_id),
                                    request.provided_qr_hash,
                                    request.db_error_at)
    /\ UNCHANGED <<products, users, verifications, ipfs, now, request>>

Next == Detect

Spec == Init /\ [][Next]_vars

(***************************************************************************)
(* Vocabulary of the properties.                                           *)
(***************************************************************************)
Range(seq) == {seq[i] : i \in DOMAIN seq}

Done == verdict # NoVerdict

Target == Product(request.product_id)

Raised == Raises(Target, request.db_error_at)

Completed == Done /\ ~Raised

Reasons == Range(verdict.detection_reasons)

Factors == Range(verdict.risk_factors)

TypeOK ==
    /\ request.product_id \in Rows(products)
    /\ Done =>
        /\ verdict.is_authentic \in BOOLEAN
        /\ verdict.confidence_score \in Int
        /\ verdict.risk_level \in {"low", "medium", "high"}
        /\ Completed => Reasons \subseteq ReasonTexts
                                 \cup {"IPFS data retrieval failed: Data not found",
                                       "IPFS data retrieval failed: Invalid data format",
                                       "IPFS validation error: " \o AttributeErrorText}

(***************************************************************************)
(* C1: in every run of detect_counterfeit that completes without an        *)
(* exception, is_authentic is true exactly when the QR validator passes,   *)
(* the IPFS validator passes and the batch check finds no duplicate; the   *)
(* blockchain, pattern, manufacturer and consistency results appear as     *)
(* risk factors only.                                                      *)
(***************************************************************************)
C1_GatePolicy ==
    Completed =>
        /\ verdict.is_authentic <=>
              /\ ValidateQrCode(Target, request.provided_qr_hash).is_valid
              /\ ValidateIpfsData(Target).is_valid
              /\ ~CheckDuplicates(Target).has_duplicates
        /\ verdict.is_authentic <=>
              Factors \cap {"qr_invalid", "ipfs_invalid", "duplicate_detected"} = {}
        /\ "blockchain_invalid" \in Factors
              <=> ~ValidateBlockchainData(Target).is_valid
        /\ "suspicious_pattern" \in Factors
              <=> AnalyzeVerificationPatterns(Target).suspicious_pattern
        /\ "manufacturer_invalid" \in Factors
              <=> ~ValidateManufacturer(Target).is_valid
        /\ "data_inconsistent" \in Factors
              <=> ~CheckDataConsistency(Target).is_consistent

C1_Witness ==
    /\ Completed
    /\ verdict.is_authentic
    /\ {"blockchain_invalid", "suspicious_pattern", "manufacturer_invalid",
        "data_inconsistent"} \subseteq Factors

(***************************************************************************)
(* C2: every verdict, on the normal and on the exception path, has a       *)
(* confidence_score in [0, 1], and the score is exactly 0.0 whenever       *)
(* is_authentic is false.                                                  *)
(***************************************************************************)
C2_ScoreRange ==
    Done =>
        /\ verdict.confidence_score >= 0
        /\ verdict.confidence_score <= 100
        /\ ~verdict.is_authentic => verdict.confidence_score = 0

C2_Witness ==
    /\ Completed
    /\ ~verdict.is_authentic
    /\ verdict.confidence_score = 0
    /\ BaseScore - SumPenalties(verdict.risk_factors) > 0

(***************************************************************************)
(* C3: when a step of detect_counterfeit raises, the verdict is            *)
(* is_authentic = false, confidence_score = 0.0, risk_level = 'high' with  *)
(* the single reason 'Detection error: <message>', whatever the validators *)
(* that ran before had concluded.                                          *)
(***************************************************************************)
C3_FailClosed ==
    (Done /\ Raised) =>
        /\ verdict.is_authentic = FALSE
        /\ verdict.confidence_score = 0
        /\ verdict.risk_level = "high"
        /\ verdict.detection_reasons = <<"Detection error: " \o DbErrorText>>

\* the query of the pattern analysis raises after the QR, IPFS and batch
\* checks have all passed
C3_Witness ==
    /\ Done
    /\ Raised
    /\ request.db_error_at = 5
    /\ ValidateQrCode(Target, request.provided_qr_hash).is_valid
    /\ ValidateIpfsData(Target).is_valid
    /\ ~CheckDuplicates(Target).has_duplicates

(***************************************************************************)
(* C4: for every product whose stored fingerprint does not have length 64  *)
(* or contains a non-hexadecimal character, a completed verification       *)
(* yields is_authentic = false and the invalid-format reason.              *)
(***************************************************************************)
InvalidFormatReason == "Invalid QR code hash format - possible counterfeit"

C4_MalformedRejected ==
    (Completed /\ ~WellFormed(Target.qr_code_hash)) =>
        /\ ~verdict.is_authentic
        /\ InvalidFormatReason \in Reasons

\* the part of C4 the code implements: a fingerprint that is empty or not
\* 64 characters long is rejected with the invalid-format reason
C4_WrongLengthRejected ==
    (Completed /\ Len(Target.qr_code_hash) # HashLen) =>
        /\ ~verdict.is_authentic
        /\ InvalidFormatReason \in Reasons

(***************************************************************************)
(* C5: for a product with a well-formed stored fingerprint and a claimed   *)
(* fingerprint that is supplied and differs from it, a completed           *)
(* verification yields is_authentic = false, confidence_score = 0.0,       *)
(* risk_level = 'high' and the mismatch reason.                            *)
(***************************************************************************)
MismatchReason == "QR code hash mismatch - possible counterfeit"

ClaimDiffers ==
    /\ WellFormed(Target.qr_code_hash)
    /\ request.provided_qr_hash # None
    /\ request.provided_qr_hash[1] # Target.qr_code_hash

\* the claim as stated, for every supplied string
C5_AnyMismatchRejected ==
    (Completed /\ ClaimDiffers) =>
        /\ ~verdict.is_authentic
        /\ verdict.confidence_score = 0
        /\ verdict.risk_level = "high"
        /\ MismatchReason \in Reasons

\* for every non-empty claimed fingerprint; the verdict is negative on the
\* exception path too, where the only reason is the detection error
C5_MismatchRejected ==
    (Done /\ ClaimDiffers /\ request.provided_qr_hash # Some("")) =>
        /\ ~verdict.is_authentic
        /\ verdict.confidence_score = 0
        /\ verdict.risk_level = "high"
        /\ Completed => MismatchReason \in Reasons

\* the claimed fingerprint differs from the stored one in its last character
\* and nothing else is wrong with the product
C5_Witness ==
    /\ Completed
    /\ Target.qr_code_hash = FP_A
    /\ request.provided_qr_hash = Some(FP_B)
    /\ QrDuplicateCount(Target) = 0
    /\ ValidateIpfsData(Target).is_valid
    /\ ~CheckDuplicates(Target).has_duplicates
    /\ ~verdict.is_authentic

(***************************************************************************)
(* C6: when two distinct active products hold the same fingerprint,        *)
(* verifying either yields is_authentic = false; in a completed run the    *)
(* reasons report the collision with the number of other products holding  *)
(* the fingerprint when that fingerprint is 64 characters long, and only   *)
(* the invalid-format reason otherwise.                                    *)
(***************************************************************************)
SharesFingerprint(i, j) ==
    /\ i # j
    /\ products[i].qr_code_hash = products[j].qr_code_hash

ActiveCollision ==
    /\ Target.is_active
    /\ \E j \in Rows(products) :
          SharesFingerprint(request.product_id, j) /\ products[j].is_active

CollisionReason(n) ==
    "Duplicate QR code detected on " \o ToString(n) \o " other products - counterfeit"

SameBatchAndIssuer(i, j) ==
    /\ i # j
    /\ products[i].batch_number = products[j].batch_number
    /\ products[i].manufacturer_id = products[j].manufacturer_id

BatchTwins ==
    {j \in Rows(products) :
        SameBatchAndIssuer(request.product_id, j) /\ products[j].is_active}

BatchReason(n) ==
    "Found " \o ToString(n)
    \o " products with same batch number from same manufacturer"

C7_BatchDuplicate ==
    /\ (Done /\ BatchTwins # {}) =>
          /\ ~verdict.is_authentic
          /\ Completed => BatchReason(Cardinality(BatchTwins)) \in Reasons
    /\ (Completed /\ BatchTwins = {}) =>
          /\ "duplicate_detected" \notin Factors
          /\ verdict.validation_summary.no_duplicates
          /\ \A n \in 0..MaxProducts : BatchReason(n) \notin Reasons

\* an active twin together with nothing else wrong: the batch check alone
\* decides the verdict
C7_Witness ==
    /\ Completed
    /\ Target.is_active
    /\ BatchTwins # {}
    /\ ValidateQrCode(Target, request.provided_qr_hash).is_valid
    /\ ValidateIpfsData(Target).is_valid

\* a product of the same batch that is inactive or of another manufacturer
\* is present and the verdict stays authentic
C7_WitnessNotTriggered ==
    /\ Completed
    /\ verdict.is_authentic
    /\ \E j \in Rows(products) :
          /\ j # request.product_id
          /\ products[j].batch_number = Target.batch_number
          /\ ~products[j].is_active

(***************************************************************************)
(* C8: content-store validator.  Without a content_store_hash it passes    *)
(* with the 'limited verification' reason and does not gate; with a hash,  *)
(* a retrieval that fails or raises, or a snapshot whose product_name or   *)
(* batch_number differs from the product's, forces is_authentic = false;   *)
(* it passes with the integrity-verified reason only when both match.      *)
(***************************************************************************)
LimitedReason == "No IPFS data available - limited verification"

VerifiedReason == "IPFS data integrity verified"

HasIpfsHash == Target.ipfs_hash # None /\ Target.ipfs_hash # Some("")

Fetched == ipfs[Target.ipfs_hash[1]]

SnapshotMatches ==
    /\ Fetched.kind = "snapshot"
    /\ Fetched.product_name = Some(Target.product_name)
    /\ Fetched.batch_number = Some(Target.batch_number)

C8_ContentStore ==
    Completed =>
        /\ ~HasIpfsHash =>
              /\ LimitedReason \in Reasons
              /\ "ipfs_invalid" \notin Factors
        /\ (HasIpfsHash /\ ~SnapshotMatches) =>
              /\ ~verdict.is_authentic
              /\ "ipfs_invalid" \in Factors
              /\ VerifiedReason \notin Reasons
        /\ (HasIpfsHash /\ SnapshotMatches) =>
              /\ VerifiedReason \in Reasons
              /\ "ipfs_invalid" \notin Factors
        /\ VerifiedReason \in Reasons => (HasIpfsHash /\ SnapshotMatches)

\* the retrieval fails while every other check passes
C8_Witness ==
    /\ Completed
    /\ HasIpfsHash
    /\ Fetched.kind # "snapshot"
    /\ ValidateQrCode(Target, request.provided_qr_hash).is_valid
    /\ ~CheckDuplicates(Target).has_duplicates
    /\ ~verdict.is_authentic

C8_WitnessBatchMismatch ==
    /\ Completed
    /\ HasIpfsHash
    /\ Fetched.kind = "snapshot"
    /\ Fetched.product_name = Some(Target.product_name)
    /\ Fetched.batch_number # Some(Target.batch_number)

(***************************************************************************)
(* C9: for every verdict with is_authentic true, confidence_score is       *)
(* max(0, 0.9 - sum of the penalties of its risk factors - 0.05 times the  *)
(* number of reasons containing 'warning', 'limited', 'old' or 'high'      *)
(* case-insensitively), with penalties 0.2 for the ledger factor, 0.3 for  *)
(* suspicious_pattern, 0.2 for manufacturer_invalid, 0.2 for               *)
(* data_inconsistent, 0.5 for detection_error and 0.1 for any other.       *)
(***************************************************************************)
ClaimedPenalty(factor) ==
    CASE factor = "blockchain_invalid" -> 20
      [] factor = "suspicious_pattern" -> 30
      [] factor = "manufacturer_invalid" -> 20
      [] factor = "data_inconsistent" -> 20
      [] factor = "detection_error" -> 50
      [] OTHER -> 10

RECURSIVE ClaimedPenalties(_)
ClaimedPenalties(factors) ==
    IF factors = <<>> THEN 0
    ELSE ClaimedPenalty(Head(factors)) + ClaimedPenalties(Tail(factors))

ClaimedWarnings ==
    Cardinality({i \in DOMAIN verdict.detection_reasons :
        \E w \in {"warning", "limited", "old", "high"} :
            Contains(StrLower(verdict.detection_reasons[i]), w)})

ClaimedRawScore ==
    90 - ClaimedPenalties(verdict.risk_factors) - 5 * ClaimedWarnings

C9_ScoreFormula ==
    (Done /\ verdict.is_authentic) =>
        verdict.confidence_score =
            (IF ClaimedRawScore > 0 THEN ClaimedRawScore ELSE 0)

\* an authentic verdict whose penalties exceed 0.9, so that the clamp acts
C9_Witness ==
    /\ Done
    /\ verdict.is_authentic
    /\ ClaimedRawScore < 0
    /\ ClaimedWarnings > 0

(***************************************************************************)
(* C10: risk_level is determined by confidence_score alone: 'high' iff     *)
(* score < 0.3, 'medium' iff 0.3 <= score < 0.7, 'low' iff score >= 0.7.   *)
(***************************************************************************)
C10_RiskBuckets ==
    Done =>
        /\ verdict.risk_level = "high" <=> verdict.confidence_score < 30
        /\ verdict.risk_level = "medium" <=>
              (30 <= verdict.confidence_score /\ verdict.confidence_score < 70)
        /\ verdict.risk_level = "low" <=> verdict.confidence_score >= 70

C10_Witness ==
    /\ Done
    /\ verdict.confidence_score = 30
    /\ verdict.risk_level = "medium"

C10_WitnessLow ==
    /\ Done
    /\ verdict.confidence_score = 70
    /\ verdict.risk_level = "low"

(***************************************************************************)
(* Vocabulary of the scenarios.                                            *)
(***************************************************************************)
\* fingerprint, content store and batch checks have nothing to object to:
\* a unique 64-hex fingerprint, the claimed fingerprint equal to it, no
\* active product of the same batch and manufacturer
IdentityClean ==
    /\ WellFormed(Target.qr_code_hash)
    /\ \A j \in Rows(products) : ~SharesFingerprint(request.product_id, j)
    /\ request.provided_qr_hash = Some(Target.qr_code_hash)
    /\ BatchTwins = {}

NoContentStore == Target.ipfs_hash = None

SnapshotVerified == HasIpfsHash /\ SnapshotMatches

LedgerRegistered ==
    Target.blockchain_id # None /\ Target.blockchain_id # Some(0)

Issuer == users[Target.manufacturer_id]

DataComplete ==
    /\ Target.product_name # ""
    /\ Target.batch_number # ""
    /\ Target.manufacturing_date # None
    /\ Target.manufacturing_date[1] <= now
    /\ Target.manufacturing_date[1] >= now - 3650

RecordsInWindow ==
    {i \in DOMAIN verifications :
        /\ verifications[i].product_id = request.product_id
        /\ verifications[i].verification_date >= now - 30}

FlaggedInWindow == {i \in RecordsInWindow : ~verifications[i].is_authentic}

NoRecords ==
    \A i \in DOMAIN verifications :
        verifications[i].product_id # request.product_id

(***************************************************************************)
(* C11: Scenario A.  A product with a unique 64-hex fingerprint, a         *)
(* matching claimed fingerprint, a ledger registration, an active and      *)
(* trusted issuer, no content-store hash, complete data and no prior       *)
(* verification is verified as authentic with risk_level 'low' and         *)
(* confidence_score 0.85: the 'limited verification' reason of the absent  *)
(* content store counts as one warning.                                    *)
(***************************************************************************)
ScenarioA ==
    /\ Completed
    /\ IdentityClean
    /\ LedgerRegistered
    /\ Issuer # NoRow /\ Issuer.is_active /\ Issuer.is_verified
    /\ NoContentStore
    /\ DataComplete
    /\ NoRecords

C11_ScenarioA ==
    ScenarioA =>
        /\ verdict.is_authentic
        /\ verdict.risk_factors = <<>>
        /\ verdict.confidence_score = 85
        /\ verdict.risk_level = "low"

\* the scenario as stated, with confidence_score 0.9
C11_ScenarioAFullScore ==
    ScenarioA =>
        /\ verdict.is_authentic
        /\ verdict.confidence_score = 90
        /\ verdict.risk_level = "low"

C11_Witness ==
    /\ ScenarioA
    /\ LimitedReason \in Reasons
    /\ verdict.is_authentic

(***************************************************************************)
(* C12: Scenario C.  A product without ledger registration whose issuer is *)
(* active but not verified, and whose identity checks pass, is verified as *)
(* authentic; the unverified issuer passes the manufacturer check with the *)
(* reason 'not verified' and costs no penalty.  With complete data and no  *)
(* prior verification the score is 0.9 - 0.2 (ledger) = 0.7 with           *)
(* risk_level 'low' when the snapshot is verified, and 0.65 with           *)
(* risk_level 'medium' when the product has no content-store hash.         *)
(***************************************************************************)
UnverifiedReason == "Manufacturer account is not verified"

ScenarioC ==
    /\ Completed
    /\ IdentityClean
    /\ NoContentStore \/ SnapshotVerified
    /\ ~LedgerRegistered
    /\ Issuer # NoRow /\ Issuer.is_active /\ ~Issuer.is_verified

ScenarioCQuiet == ScenarioC /\ DataComplete /\ NoRecords

C12_ScenarioC ==
    /\ ScenarioC =>
          /\ verdict.is_authentic
          /\ "blockchain_invalid" \in Factors
          /\ "manufacturer_invalid" \notin Factors
          /\ verdict.validation_summary.manufacturer_valid
          /\ UnverifiedReason \in Reasons
    /\ ScenarioCQuiet =>
          /\ verdict.risk_factors = <<"blockchain_invalid">>
          /\ SnapshotVerified =>
                verdict.confidence_score = 70 /\ verdict.risk_level = "low"
          /\ NoContentStore =>
                verdict.confidence_score = 65 /\ verdict.risk_level = "medium"

\* the scenario as stated: the untrusted issuer costs 0.2, the score is 0.5
C12_ScenarioCIssuerPenalty ==
    ScenarioCQuiet =>
        /\ verdict.is_authentic
        /\ verdict.confidence_score = 50
        /\ verdict.risk_level = "medium"

C12_Witness ==
    /\ ScenarioCQuiet
    /\ SnapshotVerified
    /\ verdict.confidence_score = 70

C12_WitnessNoContentStore ==
    /\ ScenarioCQuiet
    /\ NoContentStore
    /\ verdict.confidence_score = 65

(***************************************************************************)
(* C13: Scenario D.  A product with 25 verification records in the last    *)
(* 30 days, 15 of them not authentic, whose identity checks pass and whose *)
(* ledger registration, issuer and data are in order, is verified as       *)
(* authentic with the suspicious_pattern factor as its only risk factor    *)
(* and risk_level 'medium'; the reason 'High counterfeit detection rate:   *)
(* 60.0%' counts as a warning, so the score is 0.9 - 0.3 - 0.05 = 0.55     *)
(* with a verified snapshot and 0.5 without a content-store hash.          *)
(***************************************************************************)
HighRateReason == "High counterfeit detection rate: 60.0%"

ScenarioD ==
    /\ Completed
    /\ IdentityClean
    /\ NoContentStore \/ SnapshotVerified
    /\ Cardinality(RecordsInWindow) = 25
    /\ Cardinality(FlaggedInWindow) = 15
    /\ LedgerRegistered
    /\ Issuer # NoRow /\ Issuer.is_active /\ Issuer.is_verified
    /\ DataComplete

C13_ScenarioD ==
    ScenarioD =>
        /\ verdict.is_authentic
        /\ verdict.risk_factors = <<"suspicious_pattern">>
        /\ HighRateReason \in Reasons
        /\ "Excessive verification attempts: 25 in 30 days" \in Reasons
        /\ verdict.risk_level = "medium"
        /\ SnapshotVerified => verdict.confidence_score = 55
        /\ NoContentStore => verdict.confidence_score = 50

\* the scenario as stated: only the 0.3 penalty, score 0.6
C13_ScenarioDPenaltyOnly ==
    ScenarioD =>
        /\ verdict.is_authentic
        /\ verdict.confidence_score = 60
        /\ verdict.risk_level = "medium"

C13_Witness ==
    /\ ScenarioD
    /\ SnapshotVerified
    /\ verdict.confidence_score = 55

C13_WitnessNoContentStore ==
    /\ ScenarioD
    /\ NoContentStore
    /\ verdict.confidence_score = 50

(***************************************************************************)
(* The HTTP handlers around the engine (api/v1/endpoints/verifications.py  *)
(* and products.py).  In this second specification the tables change:      *)
(* request is the create_verification call that has inserted its record    *)
(* and awaits the ledger, verdict is the last response sent.               *)
(***************************************************************************)
MaxRecords == 1

ApiProductIds == {1}

MissingProductId == 99

ApiUserIds == {1, 2, 3}

\* the users that send the verification requests of the model
Verifiers == {3}

Manufacturer == "manufacturer"

Consumer == "consumer"

ApiUser(role, wallet_address) ==
    [is_active |-> TRUE, is_verified |-> TRUE, role |-> role,
     wallet_address |-> wallet_address]

ApiProductRow(h, batch, manufacturer, ledger) ==
    [qr_code_hash |-> h, product_name |-> "Widget", batch_number |-> batch,
     manufacturer_id |-> manufacturer, is_active |-> TRUE,
     blockchain_id |-> ledger, ipfs_hash |-> None,
     manufacturing_date |-> Some(Today - 1), qr_code_path |-> Some("qr_old.png")]

Idle == [idle |-> TRUE]

ApiInit ==
    \E ledger \in {None, Some(1)} :
        /\ products = [i \in ApiProductIds |->
                          ApiProductRow(FP_A, "B1", 1, ledger)]
        /\ users = [i \in ApiUserIds |->
                       CASE i = 1 -> ApiUser(Manufacturer, Some("0xA1"))
                         [] i = 2 -> ApiUser(Manufacturer, None)
                         [] OTHER -> ApiUser(Consumer, Some("0xC3"))]
        /\ verifications = <<>>
        /\ ipfs = [x \in IpfsHashes \cup {""} |-> IpfsFailure("Data not found")]
        /\ now = Today
        /\ request = Idle
        /\ verdict = NoVerdict

HttpError(endpoint, user, product_id, status, detail) ==
    [endpoint |-> endpoint, user |-> user, product_id |-> product_id,
     status |-> status, detail |-> detail]

\* BlockchainService.verify_product: it catches its own exceptions and
\* returns success False, or success True with the contract's verdict; the
\* handlers also guard the call with try / except
LedgerFailed == [success |-> FALSE]

LedgerVerified(verification_result) ==
    [success |-> TRUE, verification_result |-> verification_result]

LedgerRaises == [raises |-> TRUE]

LedgerOutcomes ==
    {LedgerFailed, LedgerVerified(TRUE), LedgerVerified(FALSE), LedgerRaises}

\* `current_user.wallet_address and product.blockchain_id`
LedgerCalled(user, p) == Truthy(users[user].wallet_address)
                         /\ ~(p.blockchain_id = None \/ p.blockchain_id = Some(0))

ApiClaimed == {Some(FP_A), Some(FP_B)}

(***************************************************************************)
(* create_verification, up to the commit of the inserted record            *)
(***************************************************************************)
VerificationFromResult(product_id, user, detection_result) ==
    [product_id |-> product_id, verifier_id |-> user,
     is_authentic |-> detection_result.is_authentic,
     detection_reasons |-> Some(detection_result.detection_reasons),
     confidence_score |-> Some(detection_result.confidence_score),
     risk_level |-> Some(detection_result.risk_level),
     blockchain_verified |-> Some(FALSE),
     blockchain_verification_id |-> None,
     verification_date |-> now]

CreateVerification ==
    /\ request = Idle
    /\ Len(verifications) < MaxRecords
    /\ \E user \in Verifiers, product_id \in ApiProductIds \cup {MissingProductId},
          provided_qr_hash \in ApiClaimed :
        IF product_id \notin Rows(products)
        THEN /\ verdict' = HttpError("create_verification", user, product_id,
                                     404, "Product not found")
             /\ UNCHANGED <<products, users, verifications, ipfs, now, request>>
        ELSE LET detection_result ==
                     DetectCounterfeit(Product(product_id), provided_qr_hash, 0)
             IN  /\ verifications' =
                        Append(verifications,
                               VerificationFromResult(product_id, user,
                                                      detection_result))
                 /\ request' = [endpoint |-> "create_verification",
                                user |-> user, product_id |-> product_id,
                                record |-> Len(verifications) + 1,
                                detection_result |-> detection_result]
                 /\ UNCHANGED <<products, users, ipfs, now, verdict>>

(***************************************************************************)
(* create_verification, from the ledger call to the response               *)
(***************************************************************************)
\* variant: the ledger's verdict replaces the local one
LedgerDowngradeAssign(is_authentic, blockchain_result) ==
    IF blockchain_result \in {LedgerFailed, LedgerRaises} THEN is_authentic
    ELSE blockchain_result.verification_result

LedgerDowngrade(is_authentic, blockchain_result) ==
    IF blockchain_result \in {LedgerFailed, LedgerRaises} THEN is_authentic
    ELSE IF ~blockchain_result.verification_result THEN FALSE
    ELSE is_authentic

\* the record after the handler's second commit
LedgerUpdate(db_verification, blockchain_result) ==
    IF blockchain_result \in {LedgerFailed, LedgerRaises} THEN db_verification
    ELSE [db_verification EXCEPT
             !.is_authentic = LedgerDowngrade(@, blockchain_result),
             !.blockchain_verification_id = None,
             !.blockchain_verified = Some(TRUE)]

CreateVerificationLedger ==
    /\ request # Idle
    /\ \E blockchain_result \in LedgerOutcomes :
        LET called == LedgerCalled(request.user, products[request.product_id])
            db_verification ==
                IF called
                THEN LedgerUpdate(verifications[request.record], blockchain_result)
                ELSE verifications[request.record]
        IN  /\ called \/ blockchain_result = LedgerFailed
            /\ verifications' =
                   [verifications EXCEPT ![request.record] = db_verification]
            /\ verdict' = [endpoint |-> "create_verification",
                           user |-> request.user,
                           product_id |-> request.product_id,
                           status |-> 200,
                           id |-> request.record,
                           verification |-> db_verification]
            /\ request' = Idle
    /\ UNCHANGED <<products, users, ipfs, now>>

(***************************************************************************)
(* analyze_counterfeit_detection: nothing is written; the ledger result    *)
(* is folded into the detection result that is returned.                   *)
(***************************************************************************)
AnalysisResult(detection_result, blockchain_result) ==
    CASE blockchain_result = LedgerRaises ->
           [detection_result EXCEPT
               !.detection_reasons = Append(@, "Blockchain verification error")]
      [] blockchain_result = LedgerFailed ->
           [detection_result EXCEPT
               !.detection_reasons = Append(@, "Blockchain verification failed")]
      [] OTHER ->
           IF blockchain_result.verification_result THEN detection_result
           ELSE [detection_result EXCEPT
                    !.is_authentic = LedgerDowngrade(@, blockchain_result),
                    !.detection_reasons =
                        Append(@, "Blockchain marked product as counterfeit")]

BlockchainAnalysis(blockchain_result) ==
    CASE blockchain_result = LedgerRaises ->
           [error |-> "ledger unreachable", blockchain_verification |-> FALSE]
      [] blockchain_result = LedgerFailed ->
           [blockchain_verification |-> FALSE, verification_result |-> TRUE]
      [] OTHER ->
           [blockchain_verification |-> TRUE,
            verification_result |-> blockchain_result.verification_result]

Min(a, b) == IF a <= b THEN a ELSE b

\* risk_score of the response: 20 per reason and per suspicious pattern
RiskScore(product_id, detection_result) ==
    LET verification_history ==
            {i \in DOMAIN verifications :
                verifications[i].product_id = product_id}
        excessive == IF Cardinality(verification_history) > 50 THEN 1 ELSE 0
        previous == IF \E i \in verification_history :
                            ~verifications[i].is_authentic
                    THEN 1 ELSE 0
    IN  Min(100, (Len(detection_result.detection_reasons)
                  + excessive + previous) * 20)

AnalyzeCounterfeitDetection ==
    /\ \E user \in Verifiers, product_id \in ApiProductIds \cup {MissingProductId},
          qr_code_hash \in ApiClaimed, blockchain_result \in LedgerOutcomes :
        IF product_id \notin Rows(products)
        THEN /\ blockchain_result = LedgerFailed
             /\ verdict' = HttpError("analyze_counterfeit_detection", user,
                                     product_id, 404, "Product not found")
        ELSE LET called == LedgerCalled(user, products[product_id])
                 local == DetectCounterfeit(Product(product_id), qr_code_hash, 0)
                 detection_result ==
                     IF called THEN AnalysisResult(local, blockchain_result)
                     ELSE local
             IN  /\ called \/ blockchain_result = LedgerFailed
                 /\ verdict' =
                      [endpoint |-> "analyze_counterfeit_detection",
                       user |-> user, product_id |-> product_id,
                       status |-> 200,
                       qr_code_hash |-> qr_code_hash,
                       detection_result |-> detection_result,
                       blockchain_analysis |->
                           IF called THEN Some(BlockchainAnalysis(blockchain_result))
                           ELSE None,
                       risk_score |-> RiskScore(product_id, detection_result)]
    /\ UNCHANGED <<products, users, verifications, ipfs, now, request>>

(***************************************************************************)
(* QRService.validate_qr_code.  json.loads is tabulated for the request    *)
(* bodies of the model; any other text is not JSON.                        *)
(***************************************************************************)
JsonNull == [kind |-> "null"]

JsonBoolean(b) == [kind |-> "boolean", value |-> b]

JsonNumber(n) == [kind |-> "number", value |-> n]

JsonString(text) == [kind |-> "string", text |-> text]

JsonArray(items) == [kind |-> "array", items |-> items]

JsonObject(fields) == [kind |-> "object", fields |-> fields]

JsonDecodeError == [kind |-> "JSONDecodeError"]

QrText(product_id, hash) ==
    "{\"product_id\": " \o product_id
    \o ", \"product_name\": \"Widget\", \"batch_number\": \"B1\", \"qr_hash\": \""
    \o hash \o "\"}"

QrObject(product_id, hash) ==
    JsonObject([product_id |-> product_id, product_name |-> JsonString("Widget"),
                batch_number |-> JsonString("B1"), qr_hash |-> JsonString(hash)])

RequiredFields == <<"product_id", "product_name", "batch_number", "qr_hash">>

JsonDocuments ==
    ("null" :> JsonNull)
    @@ ("42" :> JsonNumber(42))
    @@ ("[]" :> JsonArray(<<>>))
    @@ ("{}" :> JsonObject(<<>>))
    @@ ("\"product_id product_name batch_number qr_hash\"" :>
           JsonString("product_id product_name batch_number qr_hash"))
    @@ ("[\"product_id\", \"product_name\", \"batch_number\", \"qr_hash\"]" :>
           JsonArray(RequiredFields))
    @@ ("true" :> JsonBoolean(TRUE))
    @@ ("{\"product_id\": 1}" :> JsonObject([product_id |-> JsonNumber(1)]))
    @@ ("{\"product_id\": 1, \"product_name\": \"Widget\", \"batch_number\": \"B1\"}" :>
           JsonObject([product_id |-> JsonNumber(1),
                       product_name |-> JsonString("Widget"),
                       batch_number |-> JsonString("B1")]))
    @@ ("{\"qr_hash\": \"" \o FP_A \o "\"}" :>
           JsonObject([qr_hash |-> JsonString(FP_A)]))
    @@ (QrText("0", FP_A) :> QrObject(JsonNumber(0), FP_A))
    @@ (QrText("1", FP_A) :> QrObject(JsonNumber(1), FP_A))
    @@ (QrText("1", FP_B) :> QrObject(JsonNumber(1), FP_B))
    @@ (QrText("99", FP_A) :> QrObject(JsonNumber(MissingProductId), FP_A))
    @@ (QrText("null", FP_A) :> QrObject(JsonNull, FP_A))

QrDataInputs ==
    DOMAIN JsonDocuments
    \cup {"", "   ", "not a qr code", "{\"product_id\": 1", "1' OR '1'='1",
          "<script>alert(1)</script>"}

JsonLoads(text) ==
    IF text \in DOMAIN JsonDocuments THEN JsonDocuments[text]
    ELSE JsonDecodeError

\* `field in data` of Python for the parsed value
FieldIn(field, data) ==
    CASE data.kind = "object" -> field \in DOMAIN data.fields
      [] data.kind = "array" -> \E i \in DOMAIN data.items : data.items[i] = field
      [] data.kind = "string" -> Contains(data.text, field)

ValidateQrData(qr_data) ==
    LET data == JsonLoads(qr_data)
    IN  IF data = JsonDecodeError
        THEN [valid |-> FALSE, error |-> "Invalid JSON format"]
        ELSE IF data.kind \in {"null", "boolean", "number"}
        THEN [valid |-> FALSE, error |-> "argument is not iterable"]
        ELSE IF \E i \in DOMAIN RequiredFields : ~FieldIn(RequiredFields[i], data)
        THEN LET i == CHOOSE k \in DOMAIN RequiredFields :
                         /\ ~FieldIn(RequiredFields[k], data)
                         /\ \A j \in 1..(k - 1) : FieldIn(RequiredFields[j], data)
             IN  [valid |-> FALSE,
                  error |-> "Missing required field: " \o RequiredFields[i]]
        ELSE [valid |-> TRUE, data |-> data]

(***************************************************************************)
(* verify_product_from_qr                                                  *)
(***************************************************************************)
\* lines 498-504: the product named by the QR data; an invalid QR, a parsed
\* value that cannot be indexed by "product_id" (the bare except swallows
\* the TypeError) and an id without a row all leave product = None
QrProduct(qr_data) ==
    LET validation_result == ValidateQrData(qr_data)
    IN  IF ~validation_result.valid THEN None
        ELSE IF validation_result.data.kind # "object" THEN None
        ELSE LET product_id == validation_result.data.fields["product_id"]
             IN  IF product_id.kind = "number"
                    /\ product_id.value \in Rows(products)
                 THEN Some(product_id.value)
                 ELSE None

\* qr_info.get("qr_hash")
QrHash(qr_data) ==
    LET qr_hash == JsonLoads(qr_data).fields["qr_hash"]
    IN  IF qr_hash.kind = "string" THEN Some(qr_hash.text) ELSE None

\* variant: the 'not found' answer keeps a positive verdict
NotFoundResponseAuthentic(user, qr_data) ==
    [endpoint |-> "verify_product_from_qr", user |-> user, qr_data |-> qr_data,
     status |-> 200, product_id |-> None, id |-> None,
     is_authentic |-> TRUE,
     blockchain_verified |-> FALSE, blockchain_verification_id |-> None,
     detection_reasons |->
         <<"QR code format invalid or product not found in database">>,
     confidence_score |-> 10, risk_level |-> "high"]

NotFoundResponse(user, qr_data) ==
    [endpoint |-> "verify_product_from_qr", user |-> user, qr_data |-> qr_data,
     status |-> 200, product_id |-> None, id |-> None,
     is_authentic |-> FALSE,
     blockchain_verified |-> FALSE, blockchain_verification_id |-> None,
     detection_reasons |->
         <<"QR code format invalid or product not found in database">>,
     confidence_score |-> 10, risk_level |-> "high"]

\* the record of lines 558-564: the verdict's reasons, score and risk level
\* are not stored
VerificationFromQr(product_id, user, is_authentic) ==
    [product_id |-> product_id, verifier_id |-> user,
     is_authentic |-> is_authentic,
     detection_reasons |-> None, confidence_score |-> None,
     risk_level |-> None, blockchain_verified |-> None,
     blockchain_verification_id |-> None,
     verification_date |-> now]

VerifyProductFromQrOf(inputs) ==
    /\ \E user \in Verifiers, qr_data \in inputs,
          blockchain_result \in LedgerOutcomes :
        LET product == QrProduct(qr_data)
        IN  IF product = None
            THEN /\ blockchain_result = LedgerFailed
                 /\ verdict' = NotFoundResponse(user, qr_data)
                 /\ UNCHANGED verifications
            ELSE LET product_id == product[1]
                     detection_result ==
                         DetectCounterfeit(Product(product_id), QrHash(qr_data), 0)
                     called == /\ LedgerCalled(user, products[product_id])
                               /\ detection_result.is_authentic
                     \* line 598 stores blockchain_result.get("verification_id"),
                     \* a key verify_product never returns
                     verification ==
                         [VerificationFromQr(product_id, user,
                                             detection_result.is_authentic)
                          EXCEPT !.blockchain_verification_id = None]
                 IN  /\ Len(verifications) < MaxRecords
                     /\ called \/ blockchain_result = LedgerFailed
                     /\ verifications' = Append(verifications, verification)
                     /\ verdict' =
                          [endpoint |-> "verify_product_from_qr", user |-> user,
                           qr_data |-> qr_data, status |-> 200,
                           product_id |-> Some(product_id),
                           id |-> Some(Len(verifications) + 1),
                           is_authentic |-> verification.is_authentic,
                           blockchain_verified |->
                               called /\ blockchain_result \notin
                                             {LedgerFailed, LedgerRaises},
                           blockchain_verification_id |-> None,
                           detection_reasons |-> detection_result.detection_reasons,
                           confidence_score |-> detection_result.confidence_score,
                           risk_level |-> detection_result.risk_level]
    /\ UNCHANGED <<products, users, ipfs, now, request>>

\* the request bodies of the second specification: one that is not JSON, one
\* with the stored fingerprint, one with another fingerprint
QrDataShort == {"", QrText("1", FP_A), QrText("1", FP_B)}

VerifyProductFromQr == VerifyProductFromQrOf(QrDataShort)

(***************************************************************************)
(* update_product, delete_product, generate_qr_code                        *)
(***************************************************************************)
\* variant: the role is checked, the ownership is not
MayModifyAnyManufacturer(user, p) == users[user].role = Manufacturer

\* lines 298-301, 330-333, 359-362
MayModify(user, p) ==
    ~(users[user].role # Manufacturer \/ p.manufacturer_id # user)

\* update_data of the request: the fields that were set
ProductUpdates == {[batch_number |-> "B2"]}

ApplyUpdate(p, update_data) ==
    [field \in DOMAIN p |->
        IF field \in DOMAIN update_data THEN update_data[field] ELSE p[field]]

\* QRService.generate_qr_code_hash: the SHA-256 of the product data and a
\* fresh uuid4, a fingerprint that no row stores
NewQrHashes ==
    {h \in {FP_A, FP_B} :
        \A i \in Rows(products) : products[i].qr_code_hash # h}

\* what each handler writes to the row: the fields of update_data (lines
\* 307-309), is_active = False (line 339), the new image path (line 378)
ProductChange(endpoint, p, input) ==
    CASE endpoint = "update_product" -> ApplyUpdate(p, input)
      [] endpoint = "delete_product" -> [p EXCEPT !.is_active = FALSE]
      [] endpoint = "generate_qr_code" ->
            [p EXCEPT !.qr_code_path = Some("qr_new.png")]

\* the body of the 200 answer; generate_qr_code returns the hash and the QR
\* data that create_product_qr_code made (lines 381-386)
ProductResponse(endpoint, user, product_id, input) ==
    IF endpoint = "generate_qr_code"
    THEN [endpoint |-> endpoint, user |-> user, product_id |-> product_id,
          status |-> 200, qr_hash |-> input,
          qr_data |-> QrText(ToString(product_id), input)]
    ELSE [endpoint |-> endpoint, user |-> user, product_id |-> product_id,
          status |-> 200]

\* the checks the three handlers share: 404 for a missing row, 403 for a
\* caller that is not the owning manufacturer.  input is update_data for
\* update_product and the generated hash for generate_qr_code.
ProductRequest(endpoint, detail, input) ==
    \E user \in ApiUserIds, product_id \in ApiProductIds \cup {MissingProductId} :
        IF product_id \notin Rows(products)
        THEN /\ verdict' = HttpError(endpoint, user, product_id, 404,
                                     "Product not found")
             /\ UNCHANGED products
        ELSE IF ~MayModify(user, products[product_id])
        THEN /\ verdict' = HttpError(endpoint, user, product_id, 403, detail)
             /\ UNCHANGED products
        ELSE /\ verdict' = ProductResponse(endpoint, user, product_id, input)
             /\ products' = [products EXCEPT ![product_id] =
                                ProductChange(endpoint, @, input)]

UpdateProductOf(updates) ==
    /\ \E update_data \in updates :
          ProductRequest("update_product",
                         "Only the product manufacturer can update it",
                         update_data)
    /\ UNCHANGED <<users, verifications, ipfs, now, request>>

UpdateProduct == UpdateProductOf(ProductUpdates)

DeleteProduct ==
    /\ ProductRequest("delete_product",
                      "Only the product manufacturer can delete it", None)
    /\ UNCHANGED <<users, verifications, ipfs, now, request>>

\* create_product_qr_code makes a new hash and a new image; when it raises,
\* the handler answers 500 and the row keeps its path
GenerateQrCode ==
    /\ \E created \in BOOLEAN, qr_hash \in NewQrHashes :
          IF created
          THEN ProductRequest("generate_qr_code",
                              "Only the product manufacturer can generate QR codes",
                              qr_hash)
          ELSE \E user \in ApiUserIds, product_id \in Rows(products) :
                  /\ MayModify(user, products[product_id])
                  /\ verdict' = HttpError("generate_qr_code", user, product_id,
                                          500, "Error generating QR code")
                  /\ UNCHANGED products
    /\ UNCHANGED <<users, verifications, ipfs, now, request>>

ApiNext ==
    \/ CreateVerification
    \/ CreateVerificationLedger
    \/ AnalyzeCounterfeitDetection
    \/ VerifyProductFromQr
    \/ UpdateProduct
    \/ DeleteProduct
    \/ GenerateQrCode

ApiSpec == ApiInit /\ [][ApiNext]_vars

(***************************************************************************)
(* Third specification: verify_product_from_qr alone, over every request   *)
(* body of the model.                                                      *)
(***************************************************************************)
VerifyAnyQr == VerifyProductFromQrOf(QrDataInputs)

QrNext == VerifyAnyQr

QrSpec == ApiInit /\ [][QrNext]_vars

(***************************************************************************)
(* Vocabulary of the properties of the handlers.                           *)
(***************************************************************************)
Responded(endpoint) ==
    /\ verdict # NoVerdict
    /\ verdict.endpoint = endpoint
    /\ verdict.status = 200

\* the step sends a new response of the endpoint
Responds(endpoint) ==
    /\ verdict' # verdict
    /\ verdict'.endpoint = endpoint
    /\ verdict'.status = 200

\* the step is the ledger part of create_verification
LedgerStep == request # Idle /\ request' = Idle

LedgerReportedFailure(blockchain_analysis) ==
    \/ blockchain_analysis = None
    \/ ~blockchain_analysis[1].blockchain_verification

(***************************************************************************)
(* C14: the ledger override is one-directional.  In create_verification    *)
(* the ledger step never turns the record's is_authentic from false to     *)
(* true, and leaves it as it was when the ledger call failed or raised; in *)
(* analyze_counterfeit_detection the returned is_authentic is never true   *)
(* when the local verdict is false, and equals the local verdict when the  *)
(* ledger call was not made, failed or raised.                             *)
(***************************************************************************)
C14_OneDirectional ==
    [][/\ LedgerStep =>
            LET before == verifications[request.record]
                after == verifications'[request.record]
            IN  /\ after.is_authentic => before.is_authentic
                /\ after.is_authentic => request.detection_result.is_authentic
                /\ after.blockchain_verified # Some(TRUE) =>
                      after.is_authentic = before.is_authentic
                /\ verdict'.verification = after
       /\ Responds("analyze_counterfeit_detection") =>
            LET local == DetectCounterfeit(Product(verdict'.product_id),
                                           verdict'.qr_code_hash, 0)
                returned == verdict'.detection_result
            IN  /\ returned.is_authentic => local.is_authentic
                /\ LedgerReportedFailure(verdict'.blockchain_analysis) =>
                      returned.is_authentic = local.is_authentic
      ]_vars

\* a record that was stored as authentic and that the ledger turned negative
C14_Witness ==
    /\ Responded("create_verification")
    /\ verdict.verification.blockchain_verified = Some(TRUE)
    /\ ~verdict.verification.is_authentic
    /\ verdict.verification.confidence_score # Some(0)

\* a locally negative verdict that the ledger reports as authentic
C14_WitnessStaysNegative ==
    /\ Responded("analyze_counterfeit_detection")
    /\ verdict.blockchain_analysis # None
    /\ verdict.blockchain_analysis[1].blockchain_verification
    /\ verdict.blockchain_analysis[1].verification_result
    /\ ~verdict.detection_result.is_authentic

(***************************************************************************)
(* C15: every stored verification record and every verdict returned to    *)
(* the caller with is_authentic false has confidence_score 0 and           *)
(* risk_level 'high'.                                                      *)
(***************************************************************************)
DeniedRecord(v) ==
    ~v.is_authentic =>
        v.confidence_score = Some(0) /\ v.risk_level = Some("high")

DeniedVerdict(v) ==
    ~v.is_authentic => v.confidence_score = 0 /\ v.risk_level = "high"

C15_DenyByDefault ==
    /\ \A i \in DOMAIN verifications : DeniedRecord(verifications[i])
    /\ Responded("create_verification") => DeniedRecord(verdict.verification)
    /\ Responded("analyze_counterfeit_detection") =>
          DeniedVerdict(verdict.detection_result)
    /\ Responded("verify_product_from_qr") => DeniedVerdict(verdict)

(***************************************************************************)
(* C16: verification records are append-only.  A step adds at most one     *)
(* record and changes no field of a record that is already stored.         *)
(***************************************************************************)
C16_AppendOnly ==
    [][/\ Len(verifications') \in {Len(verifications), Len(verifications) + 1}
       /\ \A i \in DOMAIN verifications : verifications'[i] = verifications[i]
      ]_vars

(***************************************************************************)
(* C17: a product row changes only in a step that answers 200 to           *)
(* update_product, delete_product or generate_qr_code sent by the          *)
(* manufacturer that owns it; the same requests sent by any other user are *)
(* answered 403 and change nothing; the verification handlers change no    *)
(* product row; no handler of the model changes a user row.                *)
(***************************************************************************)
ProductEndpoints == {"update_product", "delete_product", "generate_qr_code"}

VerificationEndpoints ==
    {"create_verification", "analyze_counterfeit_detection",
     "verify_product_from_qr"}

Owns(user, product_id) ==
    /\ users[user].role = Manufacturer
    /\ products[product_id].manufacturer_id = user

C17_OwnerOnly ==
    [][/\ users' = users
       /\ products' # products =>
            /\ verdict'.endpoint \in ProductEndpoints
            /\ verdict'.status = 200
            /\ Owns(verdict'.user, verdict'.product_id)
            /\ \A i \in DOMAIN products \ {verdict'.product_id} :
                  products'[i] = products[i]
       /\ (/\ verdict' # verdict
           /\ verdict'.endpoint \in ProductEndpoints
           /\ verdict'.product_id \in Rows(products)
           /\ ~Owns(verdict'.user, verdict'.product_id)) =>
            /\ verdict'.status = 403
            /\ products' = products
       /\ (verdict' # verdict /\ verdict'.endpoint \in VerificationEndpoints) =>
            products' = products
       /\ (request # request' \/ verifications' # verifications) =>
            products' = products
      ]_vars

\* another manufacturer asked to delete the product and was refused; the
\* row is still active
C17_Witness ==
    /\ verdict # NoVerdict
    /\ verdict.endpoint = "delete_product"
    /\ verdict.status = 403
    /\ users[verdict.user].role = Manufacturer
    /\ products[verdict.product_id].is_active

\* the owner's requests went through
C17_WitnessOwner ==
    /\ Responded("generate_qr_code")
    /\ Owns(verdict.user, verdict.product_id)
    /\ ~products[verdict.product_id].is_active
    /\ products[verdict.product_id].batch_number = "B2"
    /\ products[verdict.product_id].qr_code_path = Some("qr_new.png")

(***************************************************************************)
(* C20: verify_product_from_qr answers every qr_data that is not a JSON    *)
(* object carrying product_id, product_name, batch_number and qr_hash, or  *)
(* whose product_id names no stored product, with status 200,              *)
(* is_authentic false and risk_level 'high', and stores no record for it.  *)
(***************************************************************************)
CarriesRequiredFields(qr_data) ==
    LET data == JsonLoads(qr_data)
    IN  /\ data.kind = "object"
        /\ {"product_id", "product_name", "batch_number", "qr_hash"}
               \subseteq DOMAIN data.fields

NamesProduct(qr_data) ==
    /\ CarriesRequiredFields(qr_data)
    /\ LET product_id == JsonLoads(qr_data).fields["product_id"]
       IN  product_id.kind = "number" /\ product_id.value \in Rows(products)

C20_InvalidQrRejected ==
    (verdict # NoVerdict /\ verdict.endpoint = "verify_product_from_qr"
        /\ ~NamesProduct(verdict.qr_data)) =>
        /\ verdict.status = 200
        /\ verdict.is_authentic = FALSE
        /\ verdict.risk_level = "high"
        /\ verdict.id = None

\* a JSON string that contains the four field names passes validate_qr_code
\* and is still rejected
C20_Witness ==
    /\ Responded("verify_product_from_qr")
    /\ JsonLoads(verdict.qr_data).kind = "string"
    /\ ValidateQrData(verdict.qr_data).valid
    /\ ~verdict.is_authentic

C20_WitnessInjection ==
    /\ Responded("verify_product_from_qr")
    /\ verdict.qr_data = "1' OR '1'='1"
    /\ ~verdict.is_authentic

C20_WitnessUnknownProduct ==
    /\ Responded("verify_product_from_qr")
    /\ CarriesRequiredFields(verdict.qr_data)
    /\ ~NamesProduct(verdict.qr_data)
    /\ ~verdict.is_authentic

(***************************************************************************)
(* Fourth specification: detect_counterfeit is called twice for the same   *)
(* product and claimed fingerprint while no table changes; between the     *)
(* calls only the clock read by datetime.utcnow() advances.  request       *)
(* keeps the first call's verdict and the clock reading of each call.      *)
(***************************************************************************)
MaxClock == 2

RepeatDates == {Some(Today + 1), Some(Today - 1), Some(Today - VeryOldDays)}

RepeatHistories ==
    {<<>>,
     <<VerificationRow(1, TRUE, Today - PatternWindowDays)>>,
     <<VerificationRow(1, FALSE, Today - PatternWindowDays + 1),
       VerificationRow(1, TRUE, Today)>>,
     <<VerificationRow(1, TRUE, Today - PatternWindowDays - 1),
       VerificationRow(1, FALSE, Today)>>}

RepeatInit ==
    \E date \in RepeatDates, history \in RepeatHistories,
       ledger \in {None, Some(1)}, claimed \in ProvidedHashes :
        /\ products = [i \in {1} |->
                          [qr_code_hash |-> FP_A, product_name |-> "Widget",
                           batch_number |-> "B1", manufacturer_id |-> 1,
                           is_active |-> TRUE, blockchain_id |-> ledger,
                           ipfs_hash |-> None, manufacturing_date |-> date]]
        /\ users = [i \in UserIds |-> UserRow(TRUE, TRUE)]
        /\ verifications = history
        /\ ipfs = [x \in IpfsHashes \cup {""} |-> IpfsFailure("Data not found")]
        /\ now = Today
        /\ request = [product_id |-> 1, provided_qr_hash |-> claimed,
                      db_error_at |-> 0, calls |-> 0,
                      first |-> NoVerdict, first_at |-> None, at |-> None]
        /\ verdict = NoVerdict

DetectAgain ==
    /\ request.calls < 2
    /\ verdict' = DetectCounterfeit(Product(request.product_id),
                                    request.provided_qr_hash,
                                    request.db_error_at)
    /\ request' = [request EXCEPT
                      !.calls = @ + 1,
                      !.first = IF request.calls = 0 THEN verdict' ELSE @,
                      !.first_at = IF request.calls = 0 THEN Some(now) ELSE @,
                      !.at = Some(now)]
    /\ UNCHANGED <<products, users, verifications, ipfs, now>>

\* time passes
Tick ==
    /\ now < Today + MaxClock
    /\ now' = now + 1
    /\ UNCHANGED <<products, users, verifications, ipfs, request, verdict>>

RepeatNext == DetectAgain \/ Tick

RepeatSpec == RepeatInit /\ [][RepeatNext]_vars

(***************************************************************************)
(* C18: two calls of detect_counterfeit for the same product, context and  *)
(* claimed fingerprint, with no record written and no product, issuer or   *)
(* content-store change between them, return the same verdict provided     *)
(* the clock has not in the meantime carried a verification record out of  *)
(* the 30-day window or the manufacturing date across the 'in the future'  *)
(* or the '10 years old' threshold.                                        *)
(***************************************************************************)
CalledTwice == request.calls = 2

WindowAt(t) ==
    {i \in DOMAIN verifications :
        /\ verifications[i].product_id = request.product_id
        /\ verifications[i].verification_date >= t - 30}

DateClassAt(t) ==
    LET date == products[request.product_id].manufacturing_date[1]
    IN  IF date > t THEN "future"
        ELSE IF date < t - 3650 THEN "very old"
        ELSE "reasonable"

SameClockView ==
    /\ WindowAt(request.first_at[1]) = WindowAt(request.at[1])
    /\ DateClassAt(request.first_at[1]) = DateClassAt(request.at[1])

StartsWith(s, prefix) ==
    /\ Len(s) >= Len(prefix)
    /\ SubSeq(s, 1, Len(prefix)) = prefix

Validators == 1..7

ReasonOpenings ==
    <<{"QR code", "Invalid QR code", "Duplicate QR code"},
      {"No IPFS", "IPFS "},
      {"Product not registered", "Product registered"},
      {"Found ", "No duplicate products"},
      {"Excessive verification", "High verification", "Normal verification",
       "High counterfeit", "Moderate counterfeit", "Low counterfeit"},
      {"Manufacturer "},
      {"Missing required", "Product information", "Manufacturing date",
       "Product is very old"}>>

FromValidator(r, k) == \E opening \in ReasonOpenings[k] : StartsWith(r, opening)

ValidatorOf(r) ==
    IF \E k \in Validators : FromValidator(r, k)
    THEN CHOOSE k \in Validators : FromValidator(r, k)
    ELSE 0

ValidatorReasons(k) ==
    CASE k = 1 -> ValidateQrCode(Target, request.provided_qr_hash).reasons
      [] k = 2 -> ValidateIpfsData(Target).reasons
      [] k = 3 -> ValidateBlockchainData(Target).reasons
      [] k = 4 -> CheckDuplicates(Target).reasons
      [] k = 5 -> AnalyzeVerificationPatterns(Target).reasons
      [] k = 6 -> ValidateManufacturer(Target).reasons
      [] k = 7 -> CheckDataConsistency(Target).reasons

ReasonsFrom(rs, k) == SelectSeq(rs, LAMBDA r : ValidatorOf(r) = k)

InValidatorOrder(rs) ==
    /\ \A i \in DOMAIN rs : ValidatorOf(rs[i]) \in Validators
    /\ \A i, j \in DOMAIN rs :
          i < j => ValidatorOf(rs[i]) <= ValidatorOf(rs[j])
    /\ \A k \in Validators : ReasonsFrom(rs, k) = ValidatorReasons(k)

(***************************************************************************)
(* C19: the reasons list of every verdict of a run that completes without  *)
(* an exception is the concatenation of the validators' reasons in the     *)
(* order QR, IPFS, blockchain, duplicates, patterns, manufacturer,         *)
(* consistency: each reason comes from one validator, the reasons of an    *)
(* earlier validator precede those of a later one, and the reasons of each *)
(* validator appear complete and in that validator's own order.  A run in  *)
(* which a validator raised returns the single "Detection error" reason.   *)
(***************************************************************************)
C19_ValidatorOrder ==
    /\ Completed => InValidatorOrder(verdict.detection_reasons)
    /\ Done /\ Raised =>
          /\ Len(verdict.detection_reasons) = 1
          /\ StartsWith(verdict.detection_reasons[1], "Detection error: ")

\* C19 as stated: the reasons list of every verdict, whether or not the run
\* completed, is the concatenation of the validators' reasons in order.
C19_ValidatorOrderEveryVerdict ==
    Done => InValidatorOrder(verdict.detection_reasons)

\* a completed run in which the QR, pattern and consistency validators
\* each contribute more than one reason
C19_Witness ==
    /\ Completed
    /\ Len(ValidatorReasons(1)) = 3
    /\ Len(ValidatorReasons(5)) = 2
    /\ Len(ValidatorReasons(7)) = 2
    /\ Len(verdict.detection_reasons) = 11

\* a run in which the batch query raised after three validators had
\* already reported
C19_WitnessRaised ==
    /\ Done
    /\ request.db_error_at = 4
    /\ Len(verdict.detection_reasons) = 1
    /\ Len(ValidatorReasons(1)) > 0

(***************************************************************************)
(* Verdicts side by side.  A verification names a product and may carry a  *)
(* fingerprint; RequestVerdicts is what detect_counterfeit returns, on the *)
(* tables of the state, for each such request, the served one included.    *)
(***************************************************************************)
RequestVerdicts ==
    {DetectCounterfeit(Product(t), c, 0) :
        t \in Rows(products), c \in {None, Some(FP_A), Some(FP_B)}}
    \cup {verdict}

PenaltyTotal(v) ==
    SumPenalties(v.risk_factors)
    + WarningCount(v.detection_reasons) * WarningPenalty

(***************************************************************************)
(* C21: the confidence_score of any verdict with is_authentic true is      *)
(* strictly greater than the confidence_score of any verdict with          *)
(* is_authentic false.                                                     *)
(***************************************************************************)
C21_AuthenticScoresStrictlyHigher ==
    Completed =>
        \A a, c \in RequestVerdicts :
            a.is_authentic /\ ~c.is_authentic =>
                a.confidence_score > c.confidence_score

\* what the scorer does guarantee: an authentic verdict never scores lower
\* than a negative one, and scores higher while its penalties (risk factors
\* and warning reasons) total less than the base score
C21_AuthenticScoresHigher ==
    Completed =>
        \A a, c \in RequestVerdicts :
            a.is_authentic /\ ~c.is_authentic =>
                /\ a.confidence_score >= c.confidence_score
                /\ PenaltyTotal(a) < BaseScore =>
                      a.confidence_score > c.confidence_score

\* the same product verified with its stored fingerprint and with another
\* one: the first verdict is authentic and scores higher
C21_Witness ==
    /\ Completed
    /\ verdict.is_authentic
    /\ verdict.confidence_score > 0
    /\ \E c \in RequestVerdicts :
          ~c.is_authentic /\ c.confidence_score < verdict.confidence_score

\* an authentic verdict whose penalties use up the whole base score
C21_WitnessZero ==
    /\ Completed
    /\ verdict.is_authentic
    /\ verdict.confidence_score = 0
    /\ PenaltyTotal(verdict) >= BaseScore

(***************************************************************************)
(* The verification history as the properties read it: the records of the  *)
(* verified product dated within the trailing 30 days.                     *)
(***************************************************************************)
InWindow ==
    {i \in DOMAIN verifications :
        /\ verifications[i].product_id = request.product_id
        /\ now - verifications[i].verification_date <= PatternWindowDays}

WindowTotal == Cardinality(InWindow)

WindowCounterfeit ==
    Cardinality({i \in InWindow : ~verifications[i].is_authentic})

\* total > 20, or total > 0 and counterfeit / total > 0.5
Suspicious ==
    \/ WindowTotal > ExcessiveAttempts
    \/ WindowTotal > 0 /\ 2 * WindowCounterfeit > WindowTotal

GatesPass ==
    /\ ValidateQrCode(Target, request.provided_qr_hash).is_valid
    /\ ValidateIpfsData(Target).is_valid
    /\ ~CheckDuplicates(Target).has_duplicates

(***************************************************************************)
(* C23: the pattern analyzer counts only the verified product's records    *)
(* dated within the trailing 30 days; the verdict carries the              *)
(* suspicious_pattern risk factor exactly when that count exceeds 20, or   *)
(* is positive with more than half of the records counterfeit; and a       *)
(* suspicious result leaves is_authentic to the three gates, whatever the  *)
(* number of records.                                                      *)
(***************************************************************************)
C23_PatternAnalyzer ==
    Completed =>
        /\ AnalyzeVerificationPatterns(Target).suspicious_pattern <=> Suspicious
        /\ "suspicious_pattern" \in Factors <=> Suspicious
        /\ verdict.validation_summary.normal_pattern <=> ~Suspicious
        /\ WindowTotal = ExcessiveAttempts /\ 2 * WindowCounterfeit <= WindowTotal
              => "suspicious_pattern" \notin Factors
        /\ 2 * WindowCounterfeit = WindowTotal /\ WindowTotal <= ExcessiveAttempts
              => "suspicious_pattern" \notin Factors
        /\ WindowTotal = 0 => "suspicious_pattern" \notin Factors
        /\ verdict.is_authentic <=> GatesPass

\* more than 20 records, one of them on the first day of the window, others
\* outside it or of another product, and the verdict is authentic
C23_Witness ==
    /\ Completed
    /\ WindowTotal > ExcessiveAttempts
    /\ WindowTotal < Len(verifications)
    /\ \E i \in InWindow :
          now - verifications[i].verification_date = PatternWindowDays
    /\ "suspicious_pattern" \in Factors
    /\ verdict.is_authentic

\* exactly 20 records, none counterfeit: not suspicious
C23_WitnessTwenty ==
    /\ Completed
    /\ WindowTotal = ExcessiveAttempts
    /\ "suspicious_pattern" \notin Factors

\* a rate of exactly one half: not suspicious
C23_WitnessHalf ==
    /\ Completed
    /\ WindowTotal > 0
    /\ 2 * WindowCounterfeit = WindowTotal
    /\ "suspicious_pattern" \notin Factors

\* a rate just above one half on few records: suspicious
C23_WitnessRate ==
    /\ Completed
    /\ WindowTotal <= ExcessiveAttempts
    /\ 2 * WindowCounterfeit > WindowTotal
    /\ "suspicious_pattern" \in Factors
    /\ verdict.is_authentic

(***************************************************************************)
(* The verified product's descriptive data as the properties read it.      *)
(***************************************************************************)
FieldsMissing == Target.product_name = "" \/ Target.batch_number = ""

DateInFuture ==
    /\ Target.manufacturing_date # None
    /\ Target.manufacturing_date[1] > now

DateVeryOld ==
    /\ Target.manufacturing_date # None
    /\ now - Target.manufacturing_date[1] > VeryOldDays

VeryOldReason == "Product is very old - verify authenticity"

\* the score of the verdict's risk factors and of its reasons other than r
ScoreWithout(r) ==
    CalculateConfidenceScore(
        verdict.is_authentic, verdict.risk_factors,
        SelectSeq(verdict.detection_reasons, LAMBDA x : x # r))

(***************************************************************************)
(* C24: a missing product_name or batch_number, or a manufacturing_date in *)
(* the future, adds the data_inconsistent risk factor; a manufacturing     *)
(* date more than 10 years in the past produces an advisory reason only    *)
(* and lowers confidence_score by nothing (no risk factor, no penalty);    *)
(* none of these outcomes makes is_authentic false.                        *)
(***************************************************************************)
C24_DataConsistency ==
    Completed =>
        /\ "data_inconsistent" \in Factors <=> FieldsMissing \/ DateInFuture
        /\ DateVeryOld =>
              /\ VeryOldReason \in Reasons
              /\ verdict.confidence_score = ScoreWithout(VeryOldReason)
        /\ verdict.is_authentic <=> GatesPass

\* what the validator does guarantee: the risk factor, the advisory reason
\* without a risk factor of its own, and no effect on is_authentic
C24_DataConsistencyFactors ==
    Completed =>
        /\ "data_inconsistent" \in Factors <=> FieldsMissing \/ DateInFuture
        /\ DateVeryOld <=> VeryOldReason \in Reasons
        /\ DateVeryOld /\ ~FieldsMissing => "data_inconsistent" \notin Factors
        /\ verdict.is_authentic <=> GatesPass

\* the cost of the advisory reason: 0.05 off an authentic score
C24_VeryOldCosts ==
    /\ Completed
    /\ DateVeryOld
    /\ verdict.is_authentic
    /\ verdict.confidence_score = ScoreWithout(VeryOldReason) - WarningPenalty

(***************************************************************************)
(* C29: validation_summary explains every negative verdict: whenever       *)
(* detect_counterfeit returns is_authentic false without having raised an  *)
(* exception, at least one entry of validation_summary is false, and       *)
(* whenever is_authentic is true the entries qr_valid and no_duplicates    *)
(* are both true.                                                          *)
(***************************************************************************)
C29_SummaryExplains ==
    Completed =>
        LET summary == verdict.validation_summary
        IN  /\ ~verdict.is_authentic =>
                  \E check_name \in DOMAIN summary : ~summary[check_name]
            /\ verdict.is_authentic =>
                  summary.qr_valid /\ summary.no_duplicates

\* what the summary does guarantee: it has no entry for the content-store
\* check, so a negative verdict shows a false entry unless that check alone
\* failed
C29_SummaryExplainsButIpfs ==
    Completed =>
        LET summary == verdict.validation_summary
        IN  /\ ~verdict.is_authentic /\ ValidateIpfsData(Target).is_valid =>
                  ~summary.qr_valid \/ ~summary.no_duplicates
            /\ verdict.is_authentic =>
                  summary.qr_valid /\ summary.no_duplicates

\* a negative verdict whose summary is true in every entry
C29_Unexplained ==
    /\ Completed
    /\ ~verdict.is_authentic
    /\ Factors = {"ipfs_invalid"}
    /\ \A check_name \in DOMAIN verdict.validation_summary :
          verdict.validation_summary[check_name]

(***************************************************************************)
(* C27: the QR payload returned by generate_qr_code carries a qr_hash      *)
(* equal to the product's stored qr_code_hash, so submitting that payload  *)
(* to verify_product_from_qr never produces a fingerprint mismatch.        *)
(***************************************************************************)
C27_PayloadVerifies ==
    [][/\ Responded("generate_qr_code") =>
             verdict.qr_hash = products[verdict.product_id].qr_code_hash
       /\ Responded("generate_qr_code")
          /\ Responds("verify_product_from_qr")
          /\ verdict'.qr_data = verdict.qr_data
             => MismatchReason \notin Range(verdict'.detection_reasons)]_vars

\* what the handler does guarantee: the returned hash is one that no row
\* stores, and the row keeps the fingerprint it had
C27_PayloadIsFresh ==
    [][Responds("generate_qr_code") =>
          /\ \A i \in Rows(products) :
                products'[i].qr_code_hash # verdict'.qr_hash
          /\ \A i \in Rows(products) :
                products'[i].qr_code_hash = products[i].qr_code_hash]_vars

(***************************************************************************)
(* Fifth specification: create_verification requests in flight at the same *)
(* time.  Every request runs in its own database session; the steps of a   *)
(* request that other sessions can observe are its reads (the queries of   *)
(* detect_counterfeit), the commit of its inserted record (lines 186-188)  *)
(* and the commit after the ledger call (line 216).  request maps each     *)
(* session to its position in the handler.                                 *)
(***************************************************************************)
MaxSessions == 2

Sessions == 1..MaxSessions

RaceHistories ==
    {<<>>,
     <<VerificationRow(1, TRUE, Today)>>,
     <<VerificationRow(1, TRUE, Today), VerificationRow(1, FALSE, Today)>>}

RaceInit ==
    \E ledger \in {None, Some(1)}, history \in RaceHistories :
        /\ products = [i \in ApiProductIds |->
                          ApiProductRow(FP_A, "B1", 1, ledger)]
        /\ users = [i \in ApiUserIds |->
                       CASE i = 1 -> ApiUser(Manufacturer, Some("0xA1"))
                         [] i = 2 -> ApiUser(Manufacturer, None)
                         [] OTHER -> ApiUser(Consumer, Some("0xC3"))]
        /\ verifications = history
        /\ ipfs = [x \in IpfsHashes \cup {""} |-> IpfsFailure("Data not found")]
        /\ now = Today
        /\ request = [s \in Sessions |-> [pc |-> "start"]]
        /\ verdict = NoVerdict

\* lines 154-172: the product lookup and detect_counterfeit
SessionDetect(s) ==
    /\ request[s].pc = "start"
    /\ \E user \in Verifiers, product_id \in ApiProductIds \cup {MissingProductId} :
        IF product_id \notin Rows(products)
        THEN /\ verdict' = HttpError("create_verification", user, product_id,
                                     404, "Product not found")
             /\ request' = [request EXCEPT ![s] = [pc |-> "done", record |-> None]]
        ELSE /\ request' =
                   [request EXCEPT ![s] =
                       [pc |-> "detected", user |-> user,
                        product_id |-> product_id,
                        detection_result |->
                            DetectCounterfeit(Product(product_id), Some(FP_A), 0)]]
             /\ UNCHANGED verdict
    /\ UNCHANGED <<products, users, verifications, ipfs, now>>

\* lines 174-188: the record is built from the detection result and committed
SessionInsert(s) ==
    /\ request[s].pc = "detected"
    /\ verifications' =
           Append(verifications,
                  VerificationFromResult(request[s].product_id, request[s].user,
                                         request[s].detection_result))
    /\ request' = [request EXCEPT ![s] =
                      [pc |-> "inserted", user |-> request[s].user,
                       product_id |-> request[s].product_id,
                       record |-> Some(Len(verifications) + 1)]]
    /\ UNCHANGED <<products, users, ipfs, now, verdict>>

\* lines 190-224: the ledger call, the update of the session's record and
\* the response
SessionLedger(s) ==
    /\ request[s].pc = "inserted"
    /\ \E blockchain_result \in LedgerOutcomes :
        LET called == LedgerCalled(request[s].user,
                                   products[request[s].product_id])
            db_verification ==
                IF called
                THEN LedgerUpdate(verifications[request[s].record[1]],
                                  blockchain_result)
                ELSE verifications[request[s].record[1]]
        IN  /\ called \/ blockchain_result = LedgerFailed
            /\ verifications' =
                   [verifications EXCEPT ![request[s].record[1]] = db_verification]
            /\ verdict' = [endpoint |-> "create_verification",
                           user |-> request[s].user,
                           product_id |-> request[s].product_id,
                           status |-> 200,
                           id |-> request[s].record[1],
                           verification |-> db_verification]
            /\ request' = [request EXCEPT ![s] =
                              [pc |-> "done",
                               record |-> request[s].record]]
    /\ UNCHANGED <<products, users, ipfs, now>>

RaceNext ==
    \E s \in Sessions : SessionDetect(s) \/ SessionInsert(s) \/ SessionLedger(s)

RaceSpec == RaceInit /\ [][RaceNext]_vars

(***************************************************************************)
(* What a stored record tells about the history its request read: the      *)
(* pattern reason names the number of records in the window, the rate      *)
(* reason the share of counterfeit ones.                                   *)
(***************************************************************************)
PatternTexts(total) ==
    {"Excessive verification attempts: " \o ToString(total) \o " in 30 days",
     "High verification frequency: " \o ToString(total) \o " in 30 days",
     "Normal verification pattern: " \o ToString(total) \o " in 30 days"}

RateTextsOf(counterfeit, total) ==
    IF total = 0 THEN {}
    ELSE {"High counterfeit detection rate: " \o FormatPercent(counterfeit, total),
          "Moderate counterfeit detection rate: " \o FormatPercent(counterfeit, total),
          "Low counterfeit detection rate: " \o FormatPercent(counterfeit, total)}

\* the record reports a history of `total` records, `counterfeit` of them
\* negative
Reports(record, counterfeit, total) ==
    LET reasons == Range(record.detection_reasons[1])
    IN  /\ reasons \cap PatternTexts(total) # {}
        /\ total > 0 => reasons \cap RateTextsOf(counterfeit, total) # {}

Stored(s) == request[s].pc = "done" /\ request[s].record # None

RecordOf(s) == verifications[request[s].record[1]]

\* the records no session of the run has written
Earlier ==
    {i \in DOMAIN verifications :
        \A s \in Sessions :
            request[s].pc \in {"inserted", "done"} =>
                request[s].record # Some(i)}

EarlierCounterfeit == {i \in Earlier : ~verifications[i].is_authentic}

\* session a ran before session b: a read the earlier records only, b read
\* them and the record a left behind
RanInOrder(a, b) ==
    /\ Reports(RecordOf(a), Cardinality(EarlierCounterfeit), Cardinality(Earlier))
    /\ Reports(RecordOf(b),
               Cardinality(EarlierCounterfeit)
                   + (IF RecordOf(a).is_authentic THEN 0 ELSE 1),
               Cardinality(Earlier) + 1)

(***************************************************************************)
(* C25: concurrent verification requests for the same product do not       *)
(* race: under every interleaving the stored records are those of some     *)
(* sequential order of the requests.  For two requests that both stored a  *)
(* record, one of them read the history without the other's record and     *)
(* the other read it with that record as it was finally stored.            *)
(***************************************************************************)
C25_Serializable ==
    \A a, b \in Sessions :
        a < b /\ Stored(a) /\ Stored(b) => RanInOrder(a, b) \/ RanInOrder(b, a)

\* the requests that did run one after the other are in order
C25_SequentialRuns ==
    [][\A a, b \in Sessions :
          /\ a # b
          /\ request[a].pc = "done" /\ request[a].record # None
          /\ request[b].pc = "start" /\ request'[b].pc = "detected"
          /\ \A s \in Sessions \ {a, b} : request[s].pc = "start"
          => LET record == VerificationFromResult(
                               request'[b].product_id, request'[b].user,
                               request'[b].detection_result)
             IN  Reports(record,
                         Cardinality({i \in DOMAIN verifications :
                                         ~verifications[i].is_authentic}),
                         Len(verifications))]_vars

\* both requests read the history before either record was committed
C25_LostRead ==
    /\ \A s \in Sessions : Stored(s)
    /\ \A s \in Sessions :
          Reports(RecordOf(s), Cardinality(EarlierCounterfeit),
                  Cardinality(Earlier))

(***************************************************************************)
(* Sixth specification: create_product (products.py lines 40-158).  The    *)
(* table starts empty; request maps each create_product call to its        *)
(* position: the row is inserted with the placeholder fingerprint '' and   *)
(* committed, the QR code is generated and the fingerprint committed, the  *)
(* snapshot is published and the product registered on the ledger.  The    *)
(* products the calls leave behind are verified by create_verification.    *)
(***************************************************************************)
MaxCreates == 2

Creates == 1..MaxCreates

CreatedIds == 1..MaxCreates

\* the callers of the model: the manufacturer with a wallet and a consumer
Creators == {1, 3}

CreateBatches == {"B1", "B2"}

\* uuid4 makes every generated fingerprint a new one
CreatedQrHash(id) == Repeat("a", HashLen - 1) \o SubSeq("abcdef", id, id)

\* the content hash of the snapshot of product id
CreatedIpfsHash(id) == "Qm" \o ToString(id)

CreateInit ==
    /\ products = [i \in CreatedIds |-> NoRow]
    /\ users = [i \in ApiUserIds |->
                   CASE i = 1 -> ApiUser(Manufacturer, Some("0xA1"))
                     [] i = 2 -> ApiUser(Manufacturer, None)
                     [] OTHER -> ApiUser(Consumer, Some("0xC3"))]
    /\ verifications = <<>>
    /\ ipfs = [x \in {CreatedIpfsHash(i) : i \in CreatedIds} \cup {""} |->
                  IpfsFailure("Data not found")]
    /\ now = Today
    /\ request = [s \in Creates |-> [pc |-> "start"]]
    /\ verdict = NoVerdict

CreateDone(s, user, status, product_id) ==
    [pc |-> "done", user |-> user, status |-> status, product_id |-> product_id]

\* the unique index on products.qr_code_hash (models/product.py line 29)
QrHashTaken(h) == \E i \in Rows(products) : products[i].qr_code_hash = h

\* lines 46-72: the role check, then the insert with qr_code_hash = '' and
\* its commit; the commit raises IntegrityError when a row holds '' already
CreateProductInsert(s) ==
    /\ request[s].pc = "start"
    /\ \E user \in Creators, batch \in CreateBatches :
        IF users[user].role # Manufacturer
        THEN /\ verdict' = HttpError("create_product", user, None, 403,
                                     "Only manufacturers can create products")
             /\ request' = [request EXCEPT ![s] = CreateDone(s, user, 403, None)]
             /\ UNCHANGED products
        ELSE IF QrHashTaken("")
        THEN /\ verdict' = HttpError("create_product", user, None, 500,
                                     "IntegrityError")
             /\ request' = [request EXCEPT ![s] = CreateDone(s, user, 500, None)]
             /\ UNCHANGED products
        ELSE LET id == Cardinality(Rows(products)) + 1
             IN  /\ products' =
                       [products EXCEPT ![id] =
                           [ApiProductRow("", batch, user, None)
                            EXCEPT !.qr_code_path = None]]
                 /\ request' = [request EXCEPT ![s] =
                                   [pc |-> "inserted", user |-> user,
                                    product_id |-> id]]
                 /\ UNCHANGED verdict
    /\ UNCHANGED <<users, verifications, ipfs, now>>

\* lines 74-90: create_product_qr_code; the new fingerprint and path are
\* committed, or the call raises and the handler returns the row as it is
CreateProductQr(s) ==
    /\ request[s].pc = "inserted"
    /\ LET id == request[s].product_id
       IN  \E generated \in BOOLEAN :
            IF generated
            THEN /\ products' = [products EXCEPT
                                    ![id].qr_code_hash = CreatedQrHash(id),
                                    ![id].qr_code_path = Some("qr_new.png")]
                 /\ request' = [request EXCEPT ![s].pc = "qr"]
                 /\ UNCHANGED verdict
            ELSE /\ verdict' = [endpoint |-> "create_product",
                                user |-> request[s].user,
                                product_id |-> Some(id), status |-> 200,
                                product |-> products[id]]
                 /\ request' = [request EXCEPT ![s] =
                                   CreateDone(s, request[s].user, 200, Some(id))]
                 /\ UNCHANGED products
    /\ UNCHANGED <<users, verifications, ipfs, now>>

\* IPFSService.store_product_data of a newly constructed service: the node
\* stores the snapshot, or the node is not reachable and the service's own
\* MockIPFSService keeps it in its memory, or the store fails
StoreOutcomes == {"node", "mock", "failed"}

\* lines 92-158: the snapshot is published and its hash committed, the
\* product is registered on the ledger when the caller has a wallet, and
\* the row is returned
CreateProductPublish(s) ==
    /\ request[s].pc = "qr"
    /\ LET id == request[s].product_id
           user == request[s].user
       IN  \E store \in StoreOutcomes, registered \in BOOLEAN :
            LET ipfs_hash == IF store = "failed" THEN None
                             ELSE Some(CreatedIpfsHash(id))
                blockchain_id ==
                    IF Truthy(users[user].wallet_address) /\ registered
                    THEN Some(id) ELSE None
                db_product == [products[id] EXCEPT
                                  !.ipfs_hash = ipfs_hash,
                                  !.blockchain_id = blockchain_id]
            IN  /\ ipfs' = IF store = "node"
                           THEN [ipfs EXCEPT ![CreatedIpfsHash(id)] =
                                    IpfsSnapshot(Some(products[id].product_name),
                                                 Some(products[id].batch_number))]
                           ELSE ipfs
                /\ products' = [products EXCEPT ![id] = db_product]
                /\ verdict' = [endpoint |-> "create_product", user |-> user,
                               product_id |-> Some(id), status |-> 200,
                               product |-> db_product]
                /\ request' = [request EXCEPT ![s] =
                                  CreateDone(s, user, 200, Some(id))]
    /\ UNCHANGED <<users, verifications, now>>

\* the ledger's answers for a product whose stored fingerprint is the one
\* that was registered
LedgerOutcomesGenuine == LedgerOutcomes \ {LedgerVerified(FALSE)}

\* create_verification (verifications.py lines 146-224) for a row of the
\* table, with the row's own fingerprint or another one
VerifyCreated ==
    /\ Len(verifications) < MaxRecords
    /\ \E user \in Verifiers, product_id \in Rows(products),
          other \in BOOLEAN, blockchain_result \in LedgerOutcomesGenuine :
        LET provided_qr_hash ==
                IF other THEN Some(CreatedQrHash(MaxCreates + 1))
                ELSE Some(products[product_id].qr_code_hash)
            detection_result ==
                DetectCounterfeit(Product(product_id), provided_qr_hash, 0)
            called == LedgerCalled(user, products[product_id])
            inserted == VerificationFromResult(product_id, user, detection_result)
            db_verification ==
                IF called THEN LedgerUpdate(inserted, blockchain_result)
                ELSE inserted
        IN  /\ called \/ blockchain_result = LedgerFailed
            /\ verifications' = Append(verifications, db_verification)
            /\ verdict' = [endpoint |-> "create_verification", user |-> user,
                           product_id |-> product_id, status |-> 200,
                           id |-> Len(verifications) + 1,
                           qr_code_hash |-> provided_qr_hash,
                           verification |-> db_verification]
    /\ UNCHANGED <<products, users, ipfs, now, request>>

CreateNext ==
    \/ \E s \in Creates :
          CreateProductInsert(s) \/ CreateProductQr(s) \/ CreateProductPublish(s)
    \/ VerifyCreated

CreateSpec == CreateInit /\ [][CreateNext]_vars

(***************************************************************************)
(* Vocabulary: the products whose create_product call has returned.        *)
(***************************************************************************)
Created(id) ==
    \E s \in Creates :
        /\ request[s].pc = "done"
        /\ request[s].status = 200
        /\ request[s].product_id = Some(id)

BatchShared(id) ==
    \E i \in Rows(products) :
        /\ i # id
        /\ products[i].batch_number = products[id].batch_number
        /\ products[i].manufacturer_id = products[id].manufacturer_id
        /\ products[i].is_active

\* the response of a verification of a created product with its stored
\* fingerprint
VerifiedWithStoredHash ==
    /\ Responded("create_verification")
    /\ Created(verdict.product_id)
    /\ ~BatchShared(verdict.product_id)
    /\ verdict.qr_code_hash = Some(products[verdict.product_id].qr_code_hash)

(***************************************************************************)
(* C22: a product created through create_product, with a batch number not  *)
(* shared by another active product of the same manufacturer and left      *)
(* unmodified, then verified through create_verification with its stored   *)
(* fingerprint, is reported authentic; the snapshot published at creation  *)
(* is found and matches when a separately constructed content-store        *)
(* service fetches it at verification time.                                *)
(***************************************************************************)
C22_CreatedVerifies ==
    VerifiedWithStoredHash => verdict.verification.is_authentic

\* what does hold: the product verifies when its fingerprint was generated
\* and its snapshot went to the node or was not published at all
C22_CreatedVerifiesOnNode ==
    /\ VerifiedWithStoredHash
    /\ products[verdict.product_id].qr_code_hash # ""
    /\ LET ipfs_hash == products[verdict.product_id].ipfs_hash
       IN  ipfs_hash = None \/ ipfs[ipfs_hash[1]].kind = "snapshot"
    => verdict.verification.is_authentic

\* the snapshot went to the fallback's memory: the hash is on the row and
\* the verification cannot retrieve it
C22_SnapshotLost ==
    /\ VerifiedWithStoredHash
    /\ products[verdict.product_id].qr_code_hash # ""
    /\ products[verdict.product_id].ipfs_hash # None
    /\ ~verdict.verification.is_authentic
    /\ "IPFS data retrieval failed: Data not found"
          \in Range(verdict.verification.detection_reasons[1])

(***************************************************************************)
(* C30: create_product requests never interfere through the fingerprint    *)
(* column: under every interleaving of two requests, and also after an     *)
(* earlier request was left with the placeholder '' because QR generation  *)
(* failed, the unique constraint on qr_code_hash is not violated and every *)
(* request of a manufacturer ends with its product stored.                 *)
(***************************************************************************)
C30_CreatesIndependent ==
    \A s \in Creates :
        request[s].pc = "done" /\ users[request[s].user].role = Manufacturer
            => /\ request[s].status = 200
               /\ request[s].product_id # None
               /\ request[s].product_id[1] \in Rows(products)

\* the index itself is kept: no two rows hold the same fingerprint
C30_FingerprintsUnique ==
    \A i, j \in Rows(products) :
        i # j => products[i].qr_code_hash # products[j].qr_code_hash

\* a request that fails while nothing else is in flight: an earlier request
\* was left with the placeholder
C30_BlockedByPlaceholder ==
    \E a, b \in Creates :
        /\ request[a].pc = "done" /\ request[a].status = 200
        /\ products[request[a].product_id[1]].qr_code_hash = ""
        /\ request[b].pc = "done" /\ request[b].status = 500

(***************************************************************************)
(* Seventh specification: the life of a published product.  Product 1 was  *)
(* created with a snapshot in the content store (ipfs_hash "Qm1", name     *)
(* Widget, batch B1); row 2 is empty or a second product of the same       *)
(* manufacturer.  The owner edits and soft-deletes product 1 while         *)
(* analyze_counterfeit_detection verifies it.  Every IPFSService instance  *)
(* probes the node when it is constructed (_check_ipfs_availability): when *)
(* the node does not answer, the instance reads from its own empty         *)
(* MockIPFSService and the retrieval answers "Data not found".  request    *)
(* keeps what the node holds.                                              *)
(***************************************************************************)
LifeProductIds == {1, 2}

Published == IpfsSnapshot(Some("Widget"), Some("B1"))

LifeSiblings ==
    {NoRow, ApiProductRow(FP_B, "B1", 1, None), ApiProductRow(FP_B, "B2", 1, None)}

\* ProductUpdate: the fields a manufacturer may set; the handler has no
\* code that republishes the snapshot or touches ipfs_hash
LifeUpdates ==
    {[batch_number |-> "B2"], [batch_number |-> "B1"],
     [product_name |-> "Gadget"], [product_name |-> "Widget"],
     [is_active |-> FALSE], [is_active |-> TRUE]}

LifeInit ==
    \E ledger \in {None, Some(1)}, sibling \in LifeSiblings :
        /\ products = [i \in LifeProductIds |->
                          IF i = 1
                          THEN [ApiProductRow(FP_A, "B1", 1, ledger)
                                   EXCEPT !.ipfs_hash = Some("Qm1")]
                          ELSE sibling]
        /\ users = [i \in ApiUserIds |->
                       CASE i = 1 -> ApiUser(Manufacturer, Some("0xA1"))
                         [] i = 2 -> ApiUser(Manufacturer, None)
                         [] OTHER -> ApiUser(Consumer, Some("0xC3"))]
        /\ verifications = <<>>
        /\ ipfs = [x \in IpfsHashes \cup {""} |->
                      IF x = "Qm1" THEN Published
                      ELSE IpfsFailure("Data not found")]
        /\ now = Today
        /\ request = [published |-> Published]
        /\ verdict = NoVerdict

\* what a retrieval answers while the node is out of order: the node does
\* not answer the probe and the instance reads its empty mock, or the node
\* answers the probe and fails the cat request (_make_request)
NodeErrors == {"Data not found", "HTTP 500: internal error"}

NodeDown ==
    /\ ipfs["Qm1"].kind = "snapshot"
    /\ \E error \in NodeErrors :
          ipfs' = [ipfs EXCEPT !["Qm1"] = IpfsFailure(error)]
    /\ UNCHANGED <<products, users, verifications, now, request, verdict>>

\* the node answers again and serves what was published
NodeUp ==
    /\ ipfs["Qm1"].kind = "failure"
    /\ ipfs' = [ipfs EXCEPT !["Qm1"] = request.published]
    /\ UNCHANGED <<products, users, verifications, now, request, verdict>>

EditProduct == UpdateProductOf(LifeUpdates)

LifeNext ==
    \/ EditProduct
    \/ DeleteProduct
    \/ AnalyzeCounterfeitDetection
    \/ NodeDown
    \/ NodeUp

LifeSpec == LifeInit /\ [][LifeNext]_vars

\* product 1 no longer carries what its snapshot says
Stale ==
    \/ Some(products[1].product_name) # request.published.product_name
    \/ Some(products[1].batch_number) # request.published.batch_number

SnapshotMismatchReasons ==
    {"IPFS data product name mismatch", "IPFS data batch number mismatch"}

Verified(id) ==
    /\ Responds("analyze_counterfeit_detection")
    /\ verdict'.product_id = id

C26_WitnessUnfetched ==
    /\ verdict # NoVerdict
    /\ verdict.endpoint = "analyze_counterfeit_detection"
    /\ verdict.status = 200
    /\ Stale
    /\ ipfs["Qm1"].kind = "failure"
    /\ Range(verdict.detection_result.detection_reasons)
          \cap SnapshotMismatchReasons = {}

\* the step changes nothing but the active flag of product id
OnlyFlagChanges(id) ==
    /\ products'[id].is_active # products[id].is_active
    /\ products' = [products EXCEPT ![id].is_active = products'[id].is_active]
    /\ users' = users /\ verifications' = verifications
    /\ ipfs' = ipfs /\ now' = now

\* C28: detect_counterfeit does not read the verified product's own active
\* flag: over a step that changes only that flag (delete_product), the
\* verdict keeps its is_authentic, confidence_score and risk_level
C28_OwnFlagIgnored ==
    [][\A id \in Rows(products) :
          OnlyFlagChanges(id) =>
             \A c \in ProvidedHashes :
                LET before == DetectCounterfeit(Product(id), c, 0)
                    after == DetectCounterfeit(Product(id), c, 0)'
                IN  /\ after.is_authentic = before.is_authentic
                    /\ after.confidence_score = before.confidence_score
                    /\ after.risk_level = before.risk_level]_vars

\* the owner soft-deleted product 1, which still verifies as authentic
C28_Witness ==
    /\ verdict # NoVerdict
    /\ verdict.endpoint = "delete_product"
    /\ verdict.status = 200
    /\ ~products[1].is_active
    /\ DetectCounterfeit(Product(1), Some(FP_A), 0).is_authentic
====
